---- MODULE Spec2Model ----
(***************************************************************************)
(* A model of the contract-review agent: the review ledger (ReviewState),  *)
(* the manage_issues tool, the tool registry, the structured dispatch loop *)
(* (ContractReviewAgent.run), the textual dispatch loop (ReActAgent.run)   *)
(* and the streaming reader (_stream_response).                            *)
(*                                                                         *)
(* Text is a sequence of one-character strings.  An issue id               *)
(* "{a}-{b}" is the pair <<a, b>>: the two numbers are non-negative, so    *)
(* the formatting is injective and two ids are equal as strings exactly    *)
(* when the pairs are equal.                                               *)
(***************************************************************************)
EXTENDS Integers, Sequences, FiniteSets, TLC

VARIABLES
    review_state,      \* the ReviewState instance (the ledger)
    agent,             \* which loop runs: "structured", "textual" or "none"
    tools,             \* the names registered in the loop's ToolRegistry
    max_steps,         \* config.max_steps / ReActAgent.max_steps
    pc,                \* the run's position: "idle", "llm", "done" or "raised"
    step,              \* number of loop iterations started
    llm_calls,         \* number of llm.chat calls made by the run
    messages,          \* the transcript built by the run
    all_tool_results,  \* ContractReviewAgent.run: all_tool_results
    result,            \* what run returned or raised (Null before that)
    step_log,          \* per iteration: what the response was classified as
    stream_owner,      \* "react", "reflector" or "none"
    stream_text,       \* the whole response the provider is going to send
    stream_pos,        \* how many characters of it have been delivered
    chunk_content,     \* _stream_response: the content of the last chunk
    buffer,            \* _stream_response: buffer
    final_start,       \* _stream_response: final_start (Some(0-based), or Null)
    printed,           \* _stream_response: printed
    streamed,          \* the payloads passed to stream_output, in order
    input_file,        \* the file load_and_split_contract is given
    split_result,      \* what _split_sections returned (Null before that)
    load_result,       \* what load_and_split_contract returned or raised
    report,            \* what export_report returned (Null before that)
    _tools,            \* ToolRegistry._tools: the entries in insertion order
    register_log,      \* the tools given to register, in call order
    auto_review        \* run_auto_review: its position and the turn's steps

ledgerVars == <<review_state>>
loopVars == <<agent, tools, max_steps, pc, step, llm_calls, messages,
              all_tool_results, result, step_log>>
streamVars == <<stream_owner, stream_text, stream_pos, chunk_content, buffer,
                final_start, printed, streamed>>
loaderVars == <<input_file, split_result, load_result>>
reportVars == <<report>>
registryVars == <<_tools, register_log>>
autoVars == <<auto_review>>
vars == <<ledgerVars, loopVars, streamVars, loaderVars, reportVars,
         registryVars, autoVars>>

----------------------------------------------------------------------------
\* Bounds of the model.

MaxSections == 2
MaxIssues == 2
MaxStepsBound == 2
MaxChunk == 6
MaxStreamPieces == 2
MaxContractPieces == 2
MaxRegistrations == 4

\* The loop with one iteration too many.
InRange_mutant(i, n) == i <= n

\* `for step in range(n)`: the body runs for the i-th time (i counted from
\* 0) exactly when i < n.
InRange(i, n) == i < n

\* Python's None: for an optional string the string "None"; for an optional
\* object the empty sequence, and <<x>> for the object x.
None == "None"
Null == <<>>
Some(x) == <<x>>

----------------------------------------------------------------------------
\* Text helpers: Python's str operations on sequences of characters.

RECURSIVE Cat(_)
Cat(ss) == IF ss = <<>> THEN <<>> ELSE Head(ss) \o Cat(Tail(ss))

Whitespace == {" ", "\n", "\t"}
Digits == {"0", "1", "2"}

\* s[i:] with a 1-based i.
From(s, i) == IF i > Len(s) THEN <<>> ELSE SubSeq(s, i, Len(s))

StartsWithAt(s, pat, i) ==
    /\ i >= 1
    /\ i + Len(pat) - 1 <= Len(s)
    /\ SubSeq(s, i, i + Len(pat) - 1) = pat

\* str.find: the 1-based position of the first occurrence, 0 when absent.
StrFind(s, pat) ==
    LET hits == {i \in 1..Len(s) : StartsWithAt(s, pat, i)}
    IN  IF hits = {} THEN 0 ELSE CHOOSE i \in hits : \A j \in hits : i <= j

Contains(s, pat) == StrFind(s, pat) # 0

\* str.strip()
Strip(s) ==
    LET keep == {i \in 1..Len(s) : s[i] \notin Whitespace}
    IN  IF keep = {} THEN <<>>
        ELSE SubSeq(s, CHOOSE i \in keep : \A j \in keep : i <= j,
                       CHOOSE i \in keep : \A j \in keep : i >= j)

\* str.split()[0] of a text that holds a non-whitespace character.
FirstToken(s) ==
    LET t == Strip(s)
        ws == {i \in 1..Len(t) : t[i] \in Whitespace}
    IN  IF ws = {} THEN t
        ELSE SubSeq(t, 1, (CHOOSE i \in ws : \A j \in ws : i <= j) - 1)

----------------------------------------------------------------------------
\* The review ledger: state/review_state.py

Severity == {"high", "medium", "low"}
IssueStatus == {"pending", "confirmed", "rejected", "resolved"}

\* ReviewState(): the dataclass defaults.
EmptyReviewState ==
    [contract_name |-> "", contract_path |-> "", sections |-> <<>>,
     current_section_index |-> 0, issues |-> <<>>]

\* Section.index is 0-based; sections[i] of the code is rs.sections[i + 1].
current_section(rs) ==
    IF 0 <= rs.current_section_index
          /\ rs.current_section_index < Len(rs.sections)
    THEN Some(rs.sections[rs.current_section_index + 1])
    ELSE Null

\* A reset that keeps the issues.
reset_mutant(rs) == [EmptyReviewState EXCEPT !.issues = rs.issues]

reset(rs) == EmptyReviewState

\* is_complete: the cursor is past the last section.
is_complete(rs) == rs.current_section_index >= Len(rs.sections)

\* Sections numbered from 1.
add_section_mutant(rs, title, content) ==
    [rs EXCEPT !.sections =
        Append(@, [index |-> Len(rs.sections) + 1, title |-> title,
                   content |-> content])]

add_section(rs, title, content) ==
    [rs EXCEPT !.sections =
        Append(@, [index |-> Len(rs.sections), title |-> title,
                   content |-> content])]

\* A forward move whose guard is two sections too generous.
next_section_mutant(rs) ==
    IF rs.current_section_index < Len(rs.sections) + 1
    THEN LET n == [rs EXCEPT !.current_section_index = @ + 1]
         IN  [rs |-> n, ret |-> current_section(n)]
    ELSE [rs |-> rs, ret |-> Null]

\* A forward move that may step off the last section.
next_section_past_last(rs) ==
    IF rs.current_section_index < Len(rs.sections)
    THEN LET n == [rs EXCEPT !.current_section_index = @ + 1]
         IN  [rs |-> n, ret |-> current_section(n)]
    ELSE [rs |-> rs, ret |-> Null]

\* A cursor move gives the new state and the returned section (None at a
\* boundary).
next_section(rs) ==
    IF rs.current_section_index < Len(rs.sections) - 1
    THEN LET n == [rs EXCEPT !.current_section_index = @ + 1]
         IN  [rs |-> n, ret |-> current_section(n)]
    ELSE [rs |-> rs, ret |-> Null]

prev_section(rs) ==
    IF rs.current_section_index > 0
    THEN LET n == [rs EXCEPT !.current_section_index = @ - 1]
         IN  [rs |-> n, ret |-> current_section(n)]
    ELSE [rs |-> rs, ret |-> Null]

\* A jump that accepts the index one past the last section.
go_to_section_mutant(rs, index) ==
    IF 0 <= index /\ index <= Len(rs.sections)
    THEN LET n == [rs EXCEPT !.current_section_index = index]
         IN  [rs |-> n, ret |-> current_section(n)]
    ELSE [rs |-> rs, ret |-> Null]

go_to_section(rs, index) ==
    IF 0 <= index /\ index < Len(rs.sections)
    THEN LET n == [rs EXCEPT !.current_section_index = index]
         IN  [rs |-> n, ret |-> current_section(n)]
    ELSE [rs |-> rs, ret |-> Null]

get_issues_by_section(rs, idx) ==
    SelectSeq(rs.issues, LAMBDA i : i.section_index = idx)

\* Issues numbered through the whole ledger instead of per section.
add_issue_mutant(rs, clause, problem, severity, suggestion, section_index) ==
    LET idx == IF section_index # Null THEN section_index[1]
               ELSE rs.current_section_index
        issue == [id |-> <<idx + 1, Len(rs.issues) + 1>>,
                  section_index |-> idx, clause |-> clause,
                  problem |-> problem, severity |-> severity,
                  suggestion |-> suggestion, status |-> "pending",
                  user_feedback |-> None]
    IN  [rs |-> [rs EXCEPT !.issues = Append(@, issue)], ret |-> issue]

\* add_issue: section_index is Some(index), or Null for Python's None,
\* which means the cursor's section.
add_issue(rs, clause, problem, severity, suggestion, section_index) ==
    LET idx == IF section_index # Null THEN section_index[1]
               ELSE rs.current_section_index
        issue == [id |-> <<idx + 1, Len(get_issues_by_section(rs, idx)) + 1>>,
                  section_index |-> idx, clause |-> clause,
                  problem |-> problem, severity |-> severity,
                  suggestion |-> suggestion, status |-> "pending",
                  user_feedback |-> None]
    IN  [rs |-> [rs EXCEPT !.issues = Append(@, issue)], ret |-> issue]

\* A lookup that takes the issue added last among those with the id.
get_issue_mutant(rs, issue_id) ==
    LET hits == {k \in 1..Len(rs.issues) : rs.issues[k].id = issue_id}
    IN  IF hits = {} THEN 0 ELSE CHOOSE k \in hits : \A j \in hits : k >= j

\* get_issue: the position of the first issue with that id, 0 when none.
get_issue(rs, issue_id) ==
    LET hits == {k \in 1..Len(rs.issues) : rs.issues[k].id = issue_id}
    IN  IF hits = {} THEN 0 ELSE CHOOSE k \in hits : \A j \in hits : k <= j

\* A value that is not a str: the token stands for the JSON number 5.
NonStringValues == {"int:5"}

\* isinstance(value, str)
IsInstanceStr(value) == value \notin NonStringValues

\* One iteration of update_issue's loop over kwargs: the key is assigned when
\* the issue has such an attribute; a severity or status given as a string
\* goes through the enum, which raises ValueError on an unknown value; a
\* value that is not a string is assigned as it is.
IssueAttributes ==
    {"id", "section_index", "clause", "problem", "severity", "suggestion",
     "status", "user_feedback"}

RECURSIVE ApplyKwargs(_, _)
ApplyKwargs(issue, kwargs) ==
    IF kwargs = <<>> THEN [issue |-> issue, raised |-> FALSE]
    ELSE LET kv == Head(kwargs)
         IN  IF kv.key \notin IssueAttributes
             THEN ApplyKwargs(issue, Tail(kwargs))
             ELSE IF kv.key = "severity" /\ IsInstanceStr(kv.value)
                     /\ kv.value \notin Severity
             THEN [issue |-> issue, raised |-> TRUE]
             ELSE IF kv.key = "status" /\ IsInstanceStr(kv.value)
                     /\ kv.value \notin IssueStatus
             THEN [issue |-> issue, raised |-> TRUE]
             ELSE ApplyKwargs([issue EXCEPT ![kv.key] = kv.value],
                              Tail(kwargs))

\* update_issue: found is FALSE when no issue has the id (the code returns
\* None); raised is TRUE when the enum conversion raised, and the assignments
\* made before it stay, because the issue object is mutated in place.
update_issue(rs, issue_id, kwargs) ==
    LET k == get_issue(rs, issue_id)
    IN  IF k = 0 THEN [rs |-> rs, found |-> FALSE, raised |-> FALSE]
        ELSE LET r == ApplyKwargs(rs.issues[k], kwargs)
             IN  [rs |-> [rs EXCEPT !.issues[k] = r.issue],
                  found |-> TRUE, raised |-> r.raised]

delete_issue(rs, issue_id) ==
    LET k == get_issue(rs, issue_id)
    IN  IF k = 0 THEN [rs |-> rs, ret |-> FALSE]
        ELSE [rs |-> [rs EXCEPT !.issues =
                        SubSeq(@, 1, k - 1) \o SubSeq(@, k + 1, Len(@))],
              ret |-> TRUE]

confirm_issue(rs, issue_id) ==
    update_issue(rs, issue_id, <<[key |-> "status", value |-> "confirmed"]>>)

reject_issue(rs, issue_id, feedback) ==
    update_issue(rs, issue_id,
                 <<[key |-> "status", value |-> "rejected"],
                   [key |-> "user_feedback", value |-> feedback]>>)

count_issues_by_severity(rs) ==
    [sev \in Severity |->
        Len(SelectSeq(rs.issues, LAMBDA i : i.severity = sev))]

\* export_report (lines 270-325): the report as its lines, blank lines left
\* out.  A line is its kind, the index of the section it belongs to (-1 for
\* the head of the report) and what it shows.
ReportLine(kind, index, shown) == [kind |-> kind, index |-> index, shown |-> <<shown>>]

TitleBlock(rs) ==
    <<ReportLine("title", -1, "report"),
      ReportLine("contract_name", -1, rs.contract_name),
      ReportLine("created_at", -1, "created_at"),
      ReportLine("total_sections", -1, Len(rs.sections)),
      ReportLine("total_issues", -1, Len(rs.issues))>>

SummaryBlock(severity_counts) ==
    <<ReportLine("summary_heading", -1, "summary"),
      ReportLine("high", -1, severity_counts["high"]),
      ReportLine("medium", -1, severity_counts["medium"]),
      ReportLine("low", -1, severity_counts["low"])>>

\* Lines 301-323: the lines of one issue.
IssueLines(issue) ==
    <<ReportLine("issue", issue.section_index, issue.id),
      ReportLine("clause", issue.section_index, issue.clause),
      ReportLine("suggestion", issue.section_index, issue.suggestion)>>
        \o (IF issue.user_feedback \notin {None, ""}
            THEN <<ReportLine("user_feedback", issue.section_index,
                              issue.user_feedback)>>
            ELSE <<>>)

RECURSIVE IssueBlock(_)
IssueBlock(section_issues) ==
    IF section_issues = <<>> THEN <<>>
    ELSE IssueLines(Head(section_issues)) \o IssueBlock(Tail(section_issues))

\* Lines 295-323: the sections in list order, those without issues left out.
RECURSIVE SectionBlocks(_, _)
SectionBlocks(rs, k) ==
    IF k > Len(rs.sections) THEN <<>>
    ELSE (IF get_issues_by_section(rs, rs.sections[k].index) = <<>> THEN <<>>
          ELSE <<ReportLine("section", rs.sections[k].index,
                            rs.sections[k].title)>>
                 \o IssueBlock(get_issues_by_section(rs,
                                                     rs.sections[k].index)))
            \o SectionBlocks(rs, k + 1)

\* A report without the severity summary.
export_report_mutant(rs) ==
    [rs |-> rs,
     ret |-> TitleBlock(rs)
               \o <<ReportLine("details_heading", -1, "details")>>
               \o SectionBlocks(rs, 1)]

export_report(rs) ==
    [rs |-> rs,
     ret |-> TitleBlock(rs)
               \o SummaryBlock(count_issues_by_severity(rs))
               \o <<ReportLine("details_heading", -1, "details")>>
               \o SectionBlocks(rs, 1)]

----------------------------------------------------------------------------
\* The contract loader: pineline/contract_loader.py
\*
\* The characters the patterns name are written with stand-in names: "fu",
\* "jian" and "lu" for the appendix words, "di", "tiao" and "zhang" for the
\* clause words, "yi", "er", "shi" and "bai" for Chinese numerals, "dun" and
\* "fcolon" for the ideographic comma and the full-width colon.  Offsets are
\* Python's: 0-based, and s[a:b] is Slice(s, a, b).

Fu == "fu"
AppendixKinds == {"jian", "lu"}
ChineseNumerals == {"yi", "er", "shi"}
AppendixNumerals == ChineseNumerals \cup Digits
ClauseNumerals == ChineseNumerals \cup {"bai"}
Di == "di"
ClauseKinds == {"tiao", "zhang"}
TitleDelimiters == {"dun", "fcolon", ":"}
AppendixDelimiters == TitleDelimiters \cup Whitespace
BasicInfoTitle == <<"he", "tong", "ji", "ben", "xin", "xi">>
FullTextTitle == <<"quan", "wen">>
HeaderMinLength == 50

Slice(s, a, b) == IF a >= b THEN <<>> ELSE SubSeq(s, a + 1, b)

\* The offset after the longest run of characters of class that starts at
\* offset i (a greedy repetition).
RunEnd(s, i, class) ==
    CHOOSE j \in i..Len(s) :
        /\ \A k \in (i + 1)..j : s[k] \in class
        /\ j = Len(s) \/ s[j + 1] \notin class

\* ([^\n]*): the offset of the first newline at or after i, or the end.
RestOfLineEnd(s, i) ==
    CHOOSE j \in i..Len(s) :
        /\ \A k \in (i + 1)..j : s[k] # "\n"
        /\ j = Len(s) \/ s[j + 1] = "\n"

\* ^ under re.MULTILINE.
BeginsLine(s, i) == i = 0 \/ s[i] = "\n"

\* The part of each pattern after (?:^|\n), tried at offset p: Null, or the
\* groups and the end of the match.
\* appendix_pattern: (fu [jian lu] numerals+) followed by one delimiter.
AppendixMarkerAt(s, p) ==
    IF /\ p + 2 < Len(s)
       /\ s[p + 1] = Fu
       /\ s[p + 2] \in AppendixKinds
       /\ RunEnd(s, p + 2, AppendixNumerals) > p + 2
       /\ RunEnd(s, p + 2, AppendixNumerals) < Len(s)
       /\ s[RunEnd(s, p + 2, AppendixNumerals) + 1] \in AppendixDelimiters
    THEN Some([group1 |-> Slice(s, p, RunEnd(s, p + 2, AppendixNumerals)),
               group2 |-> <<>>,
               end |-> RunEnd(s, p + 2, AppendixNumerals) + 1])
    ELSE Null

\* The tail \s*([^\n]*) of both clause patterns, after group 1 ended at e.
ClauseTail(s, p, e) ==
    Some([group1 |-> Slice(s, p, e),
          group2 |-> Slice(s, RunEnd(s, e, Whitespace),
                           RestOfLineEnd(s, RunEnd(s, e, Whitespace))),
          end |-> RestOfLineEnd(s, RunEnd(s, e, Whitespace))])

\* main_section_pattern: (di numerals+ [tiao zhang]) \s* (rest of the line).
ClauseMarkerAt(s, p) ==
    IF /\ p + 2 < Len(s)
       /\ s[p + 1] = Di
       /\ RunEnd(s, p + 1, ClauseNumerals) > p + 1
       /\ RunEnd(s, p + 1, ClauseNumerals) < Len(s)
       /\ s[RunEnd(s, p + 1, ClauseNumerals) + 1] \in ClauseKinds
    THEN ClauseTail(s, p, RunEnd(s, p + 1, ClauseNumerals) + 1)
    ELSE Null

\* The second main_section_pattern: (di \s* digits+ \s* [tiao zhang]) ...
DigitsEnd(s, p) == RunEnd(s, RunEnd(s, p + 1, Whitespace), Digits)
NumericClauseMarkerAt(s, p) ==
    IF /\ p + 2 < Len(s)
       /\ s[p + 1] = Di
       /\ DigitsEnd(s, p) > RunEnd(s, p + 1, Whitespace)
       /\ RunEnd(s, DigitsEnd(s, p), Whitespace) < Len(s)
       /\ s[RunEnd(s, DigitsEnd(s, p), Whitespace) + 1] \in ClauseKinds
    THEN ClauseTail(s, p, RunEnd(s, DigitsEnd(s, p), Whitespace) + 1)
    ELSE Null

MarkerAt(s, p, pattern) ==
    IF pattern = "appendix" THEN AppendixMarkerAt(s, p)
    ELSE IF pattern = "clause" THEN ClauseMarkerAt(s, p)
    ELSE NumericClauseMarkerAt(s, p)

\* The pattern tried at offset q: the alternative ^ first, then \n.
WithStart(marker, q) ==
    [start |-> q, group1 |-> marker[1].group1, group2 |-> marker[1].group2,
     end |-> marker[1].end]
MatchAt(s, q, pattern) ==
    IF BeginsLine(s, q) /\ MarkerAt(s, q, pattern) # Null
    THEN Some(WithStart(MarkerAt(s, q, pattern), q))
    ELSE IF q < Len(s) /\ s[q + 1] = "\n" /\ MarkerAt(s, q + 1, pattern) # Null
    THEN Some(WithStart(MarkerAt(s, q + 1, pattern), q))
    ELSE Null

\* list(re.finditer(pattern, s, re.MULTILINE)) from offset pos on: the
\* leftmost match, then the search resumes at its end.
RECURSIVE Finditer(_, _, _)
Finditer(s, pattern, pos) ==
    LET hits == {q \in pos..(Len(s) - 1) : MatchAt(s, q, pattern) # Null}
    IN  IF hits = {} THEN <<>>
        ELSE LET q == CHOOSE q \in hits : \A r \in hits : q <= r
             IN  MatchAt(s, q, pattern)
                    \o Finditer(s, pattern, MatchAt(s, q, pattern)[1].end)

\* Lines 72-77: the text before the first clause, kept when its stripped
\* length exceeds HeaderMinLength.
HeaderSections(main_content, main_matches) ==
    IF main_matches # <<>> /\ main_matches[1].start > 0
          /\ Len(Strip(Slice(main_content, 0, main_matches[1].start)))
                > HeaderMinLength
    THEN <<<<BasicInfoTitle,
             Strip(Slice(main_content, 0, main_matches[1].start))>>>>
    ELSE <<>>

\* Lines 78-83: one section per clause match.
MainSections(main_content, main_matches, main_content_end) ==
    [i \in 1..Len(main_matches) |->
        <<Strip(main_matches[i].group1 \o <<" ">> \o main_matches[i].group2),
          Strip(Slice(main_content, main_matches[i].end,
                      IF i < Len(main_matches) THEN main_matches[i + 1].start
                      ELSE main_content_end))>>]

\* content.find("\n", start), the end of the text when there is none.
LineEndOffset(content, start) ==
    LET nl == {k \in start..(Len(content) - 1) : content[k + 1] = "\n"}
    IN  IF nl = {} THEN Len(content)
        ELSE CHOOSE k \in nl : \A j \in nl : k <= j

\* re.sub(r"[dun fcolon :]\s*$", "", full_title) of a stripped title.
StripTitleSuffix(full_title) ==
    IF full_title # <<>> /\ full_title[Len(full_title)] \in TitleDelimiters
    THEN SubSeq(full_title, 1, Len(full_title) - 1)
    ELSE full_title

\* Lines 88-96: the title and the body of the i-th appendix match.
AppendixTitle(content, match) ==
    StripTitleSuffix(Strip(Slice(content,
        IF content[match.start + 1] = "\n" THEN match.start + 1
        ELSE match.start,
        LineEndOffset(content, match.end))))
AppendixContent(content, appendix_matches, i) ==
    Strip(Slice(content,
        IF LineEndOffset(content, appendix_matches[i].end) < Len(content)
        THEN LineEndOffset(content, appendix_matches[i].end) + 1
        ELSE LineEndOffset(content, appendix_matches[i].end),
        IF i < Len(appendix_matches) THEN appendix_matches[i + 1].start
        ELSE Len(content)))

\* Lines 98-102: the first section whose title starts with appendix_id is
\* replaced when the new body is longer.
ReplaceDuplicate(sections, appendix_id, full_title, appendix_content) ==
    LET hits == {j \in 1..Len(sections) :
                    StartsWithAt(sections[j][1], appendix_id, 1)}
    IN  IF hits = {} THEN sections
        ELSE LET j == CHOOSE j \in hits : \A k \in hits : j <= k
             IN  IF Len(appendix_content) > Len(sections[j][2])
                 THEN [sections EXCEPT ![j] = <<full_title, appendix_content>>]
                 ELSE sections

\* Lines 85-105: the loop over the appendix matches.
RECURSIVE AppendixLoop(_, _, _, _, _)
AppendixLoop(content, appendix_matches, i, sections, processed_appendix_ids) ==
    IF i > Len(appendix_matches) THEN sections
    ELSE IF appendix_matches[i].group1 \in processed_appendix_ids
    THEN AppendixLoop(content, appendix_matches, i + 1,
             ReplaceDuplicate(sections, appendix_matches[i].group1,
                              AppendixTitle(content, appendix_matches[i]),
                              AppendixContent(content, appendix_matches, i)),
             processed_appendix_ids)
    ELSE AppendixLoop(content, appendix_matches, i + 1,
             Append(sections,
                    <<AppendixTitle(content, appendix_matches[i]),
                      AppendixContent(content, appendix_matches, i)>>),
             processed_appendix_ids \cup {appendix_matches[i].group1})

\* Lines 63-70: the main body ends at the first appendix match; the numeric
\* clause pattern is used when the first one matches nowhere.
MainContentEnd(content, appendix_matches) ==
    IF appendix_matches # <<>> THEN appendix_matches[1].start
    ELSE Len(content)
MainMatches(main_content) ==
    IF Finditer(main_content, "clause", 0) # <<>>
    THEN Finditer(main_content, "clause", 0)
    ELSE Finditer(main_content, "numeric_clause", 0)

\* A segmenter that returns the appendix sections before the main body.
SplitWith_mutant(content, appendix_matches, main_content, main_matches) ==
    AppendixLoop(content, appendix_matches, 1, <<>>, {})
        \o HeaderSections(main_content, main_matches)
        \o MainSections(main_content, main_matches, Len(main_content))

SplitWith(content, appendix_matches, main_content, main_matches) ==
    AppendixLoop(content, appendix_matches, 1,
                 HeaderSections(main_content, main_matches)
                    \o MainSections(main_content, main_matches,
                                    Len(main_content)),
                 {})

SplitMain(content, appendix_matches, main_content) ==
    SplitWith(content, appendix_matches, main_content,
              MainMatches(main_content))

SplitAll(content, appendix_matches) ==
    SplitMain(content, appendix_matches,
              Slice(content, 0, MainContentEnd(content, appendix_matches)))

\* A segmenter without the full-text section of lines 107-108.
_split_sections_mutant(content) ==
    SplitAll(content, Finditer(content, "appendix", 0))

\* _split_sections: the list of (title, body) pairs.
_split_sections(content) ==
    IF SplitAll(content, Finditer(content, "appendix", 0)) = <<>>
    THEN <<<<FullTextTitle, Strip(content)>>>>
    ELSE SplitAll(content, Finditer(content, "appendix", 0))

\* A file as load_and_split_contract sees it: whether the path exists, its
\* lower-cased extension, whether its bytes can be decoded (UTF-8 for .txt
\* and .md, a Word document for .docx), and the text they decode to.
_read_docx(file) == IF file.decodable THEN file.content ELSE <<>>

\* _read_file: the text, "" for another extension; open(..., encoding=
\* "utf-8").read() is not guarded, so bytes that do not decode raise.
_read_file(file) ==
    IF file.ext = ".docx" THEN [raised |-> FALSE, value |-> _read_docx(file)]
    ELSE IF file.ext \in {".txt", ".md"}
    THEN IF file.decodable THEN [raised |-> FALSE, value |-> file.content]
         ELSE [raised |-> TRUE, value |-> <<"UnicodeDecodeError">>]
    ELSE [raised |-> FALSE, value |-> <<>>]

RECURSIVE AddSections(_, _)
AddSections(rs, sections) ==
    IF sections = <<>> THEN rs
    ELSE AddSections(add_section(rs, Head(sections)[1], Head(sections)[2]),
                     Tail(sections))

LoadError(rs, message) ==
    [rs |-> rs, raised |-> FALSE,
     ret |-> [kind |-> "error", message |-> message, titles |-> <<>>]]

\* A load that fills the ledger without resetting it first.
LoadSections_mutant(rs, file, sections) ==
    IF sections = <<>> THEN LoadError(rs, "no_sections_recognised")
    ELSE [rs |-> AddSections([rs EXCEPT !.contract_name = file.name,
                                        !.contract_path = file.path],
                             sections),
          raised |-> FALSE,
          ret |-> [kind |-> "loaded", message |-> file.name,
                   titles |-> [i \in 1..Len(sections) |-> sections[i][1]]]]

\* Lines 123-139: the ledger is reset, named and filled; the summary lists
\* the titles.
LoadSections(rs, file, sections) ==
    IF sections = <<>> THEN LoadError(rs, "no_sections_recognised")
    ELSE [rs |-> AddSections([reset(rs) EXCEPT !.contract_name = file.name,
                                               !.contract_path = file.path],
                             sections),
          raised |-> FALSE,
          ret |-> [kind |-> "loaded", message |-> file.name,
                   titles |-> [i \in 1..Len(sections) |-> sections[i][1]]]]

\* Lines 119-122.
LoadContent(rs, file, read) ==
    IF read.raised
    THEN [rs |-> rs, raised |-> TRUE,
          ret |-> [kind |-> "exception", message |-> read.value[1],
                   titles |-> <<>>]]
    ELSE IF read.value = <<>> THEN LoadError(rs, "cannot_read_file_content")
    ELSE LoadSections(rs, file, _split_sections(read.value))

load_and_split_contract(rs, file) ==
    IF ~file.exists THEN LoadError(rs, "file_not_found")
    ELSE LoadContent(rs, file, _read_file(file))

\* A readable text file, and a contract of n clauses.
TxtFile(content) ==
    [path |-> "dir/contract.txt", name |-> "contract.txt", exists |-> TRUE,
     ext |-> ".txt", decodable |-> TRUE, content |-> content]
ClauseLine == <<Di, "yi", "tiao", " ", "a", "\n", "b", "\n">>
ContractOfClauses(n) == Cat([k \in 1..n |-> ClauseLine])
\* What the segmenter returns for these contracts, computed once.
ClauseSections ==
    [n \in 1..MaxSections |-> _split_sections(ContractOfClauses(n))]

----------------------------------------------------------------------------
\* The parts of the state a specification does not drive stay as constructed.

IdleLoop ==
    /\ agent = "none" /\ tools = {} /\ max_steps = 0 /\ pc = "idle"
    /\ step = 0 /\ llm_calls = 0 /\ messages = <<>>
    /\ all_tool_results = <<>> /\ result = Null /\ step_log = <<>>

IdleLoader ==
    /\ input_file = Null /\ split_result = Null /\ load_result = Null

IdleReport == report = Null /\ _tools = <<>> /\ register_log = <<>>

IdleAuto == auto_review = [pc |-> "idle", steps |-> 0]

IdleStream ==
    /\ stream_owner = "none" /\ stream_text = <<>> /\ stream_pos = 0
    /\ chunk_content = <<>> /\ buffer = <<>> /\ final_start = Null
    /\ printed = 0 /\ streamed = <<>>

----------------------------------------------------------------------------
\* The manage_issues tool: tools/contract_tools.py
\*
\* The arguments of a call are a record (the dict the model sent).  A tool's
\* text result is a tuple whose first element names the message.

Has(args, k) == k \in DOMAIN args

\* `if not x` on an optional string argument: absent, None or empty.
Falsy(args, k) == ~Has(args, k) \/ args[k] = None \/ args[k] = ""

\* The keyword parameters of ManageIssuesTool.execute; operation has no
\* default.
ManageIssuesParams ==
    {"operation", "issue_id", "clause", "problem", "severity", "suggestion",
     "feedback"}

_get_current_section(rs) ==
    IF current_section(rs) = Null
    THEN [rs |-> rs, content |-> <<"no_contract_loaded">>, raised |-> FALSE]
    ELSE [rs |-> rs,
          content |-> <<"section", current_section(rs)[1].index,
                        Len(rs.sections),
                        Len(get_issues_by_section(rs, rs.current_section_index))>>,
          raised |-> FALSE]

_next_section(rs) ==
    LET r == next_section(rs)
    IN  IF r.ret = Null
        THEN [rs |-> r.rs, content |-> <<"already_last_section">>,
              raised |-> FALSE]
        ELSE [rs |-> r.rs,
              content |-> <<"switched_to", r.ret[1].index + 1,
                            Len(r.rs.sections)>>,
              raised |-> FALSE]

_prev_section(rs) ==
    LET r == prev_section(rs)
    IN  IF r.ret = Null
        THEN [rs |-> r.rs, content |-> <<"already_first_section">>,
              raised |-> FALSE]
        ELSE [rs |-> r.rs,
              content |-> <<"switched_to", r.ret[1].index + 1,
                            Len(r.rs.sections)>>,
              raised |-> FALSE]

_add_issue(rs, args) ==
    IF Falsy(args, "clause") \/ Falsy(args, "problem")
          \/ Falsy(args, "severity") \/ Falsy(args, "suggestion")
    THEN [rs |-> rs, content |-> <<"error", "add_needs_all_fields">>,
          raised |-> FALSE]
    ELSE IF args.severity \notin Severity
    THEN [rs |-> rs, content |-> <<"error", "invalid_severity", args.severity>>,
          raised |-> FALSE]
    ELSE LET r == add_issue(rs, args.clause, args.problem, args.severity,
                            args.suggestion, Null)
         IN  [rs |-> r.rs, content |-> <<"added", r.ret.id>>,
              raised |-> FALSE]

\* The kwargs _update_issue builds, in the order it inserts them.
UpdateKwargsOf(args) ==
    (IF Falsy(args, "problem") THEN <<>>
     ELSE <<[key |-> "problem", value |-> args.problem]>>)
    \o (IF Falsy(args, "severity") THEN <<>>
        ELSE <<[key |-> "severity", value |-> args.severity]>>)
    \o (IF Falsy(args, "suggestion") THEN <<>>
        ELSE <<[key |-> "suggestion", value |-> args.suggestion]>>)

_update_issue(rs, args) ==
    IF ~Has(args, "issue_id")
    THEN [rs |-> rs, content |-> <<"error", "update_needs_issue_id">>,
          raised |-> FALSE]
    ELSE LET r == update_issue(rs, args.issue_id, UpdateKwargsOf(args))
         IN  IF r.raised
             THEN [rs |-> r.rs, content |-> <<"ValueError">>, raised |-> TRUE]
             ELSE IF ~r.found
             THEN [rs |-> r.rs,
                   content |-> <<"error", "issue_not_found", args.issue_id>>,
                   raised |-> FALSE]
             ELSE [rs |-> r.rs, content |-> <<"updated", args.issue_id>>,
                   raised |-> FALSE]

_delete_issue(rs, args) ==
    IF ~Has(args, "issue_id")
    THEN [rs |-> rs, content |-> <<"error", "delete_needs_issue_id">>,
          raised |-> FALSE]
    ELSE LET r == delete_issue(rs, args.issue_id)
         IN  IF r.ret
             THEN [rs |-> r.rs, content |-> <<"deleted", args.issue_id>>,
                   raised |-> FALSE]
             ELSE [rs |-> r.rs,
                   content |-> <<"error", "issue_not_found", args.issue_id>>,
                   raised |-> FALSE]

\* Issue.to_dict reads severity.value and status.value, which only enum
\* members have; _list_issues calls it on every issue.
_list_issues(rs) ==
    IF rs.issues = <<>>
    THEN [rs |-> rs, content |-> <<"no_issues">>, raised |-> FALSE]
    ELSE IF \E k \in 1..Len(rs.issues) :
               \/ rs.issues[k].severity \notin Severity
               \/ rs.issues[k].status \notin IssueStatus
    THEN [rs |-> rs, content |-> <<"AttributeError">>, raised |-> TRUE]
    ELSE [rs |-> rs,
          content |-> <<"list", Len(rs.issues), count_issues_by_severity(rs)>>,
          raised |-> FALSE]

_confirm_issue(rs, args) ==
    IF ~Has(args, "issue_id")
    THEN [rs |-> rs, content |-> <<"error", "confirm_needs_issue_id">>,
          raised |-> FALSE]
    ELSE LET r == confirm_issue(rs, args.issue_id)
         IN  IF ~r.found
             THEN [rs |-> r.rs,
                   content |-> <<"error", "issue_not_found", args.issue_id>>,
                   raised |-> FALSE]
             ELSE [rs |-> r.rs, content |-> <<"confirmed", args.issue_id>>,
                   raised |-> FALSE]

_reject_issue(rs, args) ==
    IF ~Has(args, "issue_id")
    THEN [rs |-> rs, content |-> <<"error", "reject_needs_issue_id">>,
          raised |-> FALSE]
    ELSE LET r == reject_issue(rs, args.issue_id,
                               IF Has(args, "feedback") THEN args.feedback
                               ELSE None)
         IN  IF ~r.found
             THEN [rs |-> r.rs,
                   content |-> <<"error", "issue_not_found", args.issue_id>>,
                   raised |-> FALSE]
             ELSE [rs |-> r.rs, content |-> <<"rejected", args.issue_id>>,
                   raised |-> FALSE]

\* export_report, as far as the loop sees it: a report over the ledger.
_export_report(rs) ==
    [rs |-> rs,
     content |-> <<"report", Len(rs.sections), Len(rs.issues),
                   count_issues_by_severity(rs)>>,
     raised |-> FALSE]

\* ManageIssuesTool.execute(**arguments): Python binds the dict to the
\* keyword parameters first and raises TypeError when a key is no parameter
\* or operation is missing; then the if/elif chain dispatches.
ManageIssuesExecute(rs, args) ==
    IF ~(DOMAIN args \subseteq ManageIssuesParams) \/ ~Has(args, "operation")
    THEN [rs |-> rs, content |-> <<"TypeError">>, raised |-> TRUE]
    ELSE CASE args.operation = "get_current_section" -> _get_current_section(rs)
           [] args.operation = "next_section" -> _next_section(rs)
           [] args.operation = "prev_section" -> _prev_section(rs)
           [] args.operation = "add" -> _add_issue(rs, args)
           [] args.operation = "update" -> _update_issue(rs, args)
           [] args.operation = "delete" -> _delete_issue(rs, args)
           [] args.operation = "list" -> _list_issues(rs)
           [] args.operation = "confirm" -> _confirm_issue(rs, args)
           [] args.operation = "reject" -> _reject_issue(rs, args)
           [] args.operation = "export" -> _export_report(rs)
           [] OTHER -> [rs |-> rs,
                        content |-> <<"error", "unknown_operation",
                                      args.operation>>,
                        raised |-> FALSE]

\* RagQueryTool.execute(query, top_k).  How the lookup ends is the
\* environment's choice (outcome): the failures are a missing key or index
\* id, a response whose status is not 200, an exception of the HTTP call and
\* the expiry of its timeout of 30 seconds, which requests raises as an
\* exception too.
RagQueryParams == {"query", "top_k"}
RagFailures == {"not_configured", "http_error", "exception", "timeout"}
RagOutcomes == {"results"} \cup RagFailures

\* An executor without the except clause: the exception of the HTTP call and
\* the timeout leave execute as exceptions.
RagQueryExecute_mutant(rs, args, outcome) ==
    IF ~(DOMAIN args \subseteq RagQueryParams) \/ ~Has(args, "query")
    THEN [rs |-> rs, content |-> <<"TypeError">>, raised |-> TRUE]
    ELSE IF outcome \in {"exception", "timeout"}
    THEN [rs |-> rs, content |-> <<outcome>>, raised |-> TRUE]
    ELSE IF outcome \in RagFailures
    THEN [rs |-> rs, content |-> <<"rag_error", outcome>>, raised |-> FALSE]
    ELSE [rs |-> rs, content |-> <<"rag", outcome>>, raised |-> FALSE]

\* Arguments that do not fit the signature raise TypeError before the body
\* runs; the body returns text on every path: the error text of the failure,
\* or the results.
RagQueryExecute(rs, args, outcome) ==
    IF ~(DOMAIN args \subseteq RagQueryParams) \/ ~Has(args, "query")
    THEN [rs |-> rs, content |-> <<"TypeError">>, raised |-> TRUE]
    ELSE IF outcome \in RagFailures
    THEN [rs |-> rs, content |-> <<"rag_error", outcome>>, raised |-> FALSE]
    ELSE [rs |-> rs, content |-> <<"rag", outcome>>, raised |-> FALSE]

----------------------------------------------------------------------------
\* The tool registry: core/tool.py, core/exceptions.py

\* The error text without the registered names.
ToolNotFoundErrorStr_mutant(name, available) ==
    <<"Tool not found", name, [tool_name |-> name, available_tools |-> {}]>>

\* str(ToolNotFoundError(name, available)): AgentError.__str__ appends the
\* details, and available_tools is among them only when the list is
\* non-empty.  available is the set of registered names.
ToolNotFoundErrorStr(name, available) ==
    <<"Tool not found", name,
      IF available # {} THEN [tool_name |-> name, available_tools |-> available]
      ELSE [tool_name |-> name]>>

\* BaseTool.execute of the registered tool called name.
ToolExecute(name, rs, args, outcome) ==
    IF name = "manage_issues" THEN ManageIssuesExecute(rs, args)
    ELSE RagQueryExecute(rs, args, outcome)

\* A registry that does not notice the exception.
ToolResultOf_mutant(name, r) ==
    [rs |-> r.rs, raised |-> FALSE,
     result |-> [tool_call_id |-> Null, name |-> name, content |-> r.content,
                 success |-> TRUE, error |-> Null]]

\* ToolRegistry.call, after tool.execute(**arguments) came back as r: an
\* exception of the executor becomes an unsuccessful ToolResult.
ToolResultOf(name, r) ==
    IF r.raised
    THEN [rs |-> r.rs, raised |-> FALSE,
          result |-> [tool_call_id |-> Null, name |-> name,
                      content |-> <<"Error">> \o r.content,
                      success |-> FALSE, error |-> r.content]]
    ELSE [rs |-> r.rs, raised |-> FALSE,
          result |-> [tool_call_id |-> Null, name |-> name,
                      content |-> r.content,
                      success |-> TRUE, error |-> Null]]

\* ToolRegistry.call: raises ToolNotFoundError for an unknown name.
ToolRegistryCall(registered, name, rs, args, outcome) ==
    IF name \notin registered
    THEN [rs |-> rs, raised |-> TRUE,
          exc |-> ToolNotFoundErrorStr(name, registered)]
    ELSE ToolResultOf(name, ToolExecute(name, rs, args, outcome))

\* ToolRegistry.execute_tool_call: the result r of call takes the call's id.
WithToolCallId(id, r) ==
    IF r.raised THEN r ELSE [r EXCEPT !.result.tool_call_id = id]

execute_tool_call(registered, tool_call, rs, outcome) ==
    WithToolCallId(tool_call.id,
                   ToolRegistryCall(registered, tool_call.name, rs,
                                    tool_call.arguments, outcome))

----------------------------------------------------------------------------
\* The structured dispatch loop: agents/contract_review_agent.py and
\* core/base_agent.py

\* The try/except of BaseAgent._execute_tool_calls around one call tc whose
\* execute_tool_call came back as r: an exception becomes an unsuccessful
\* ToolResult, and the result joins the list.
CollectResult(tc, results, r) ==
    [rs |-> r.rs,
     results |-> Append(results,
                        IF r.raised
                        THEN [tool_call_id |-> tc.id, name |-> tc.name,
                              content |-> <<"Error">> \o r.exc,
                              success |-> FALSE, error |-> r.exc]
                        ELSE r.result)]

\* Calls run side by side: each one starts from the ledger as it was when
\* the response arrived, and the ledger of the last one is kept.
RECURSIVE ExecuteOnSnapshot(_, _, _, _, _, _)
ExecuteOnSnapshot(registered, tool_calls, snapshot, acc, outs, i) ==
    IF i > Len(tool_calls) THEN acc
    ELSE ExecuteOnSnapshot(
             registered, tool_calls, snapshot,
             CollectResult(tool_calls[i], acc.results,
                           execute_tool_call(registered, tool_calls[i],
                                             snapshot, outs[i])),
             outs, i + 1)

_execute_tool_calls_mutant(registered, tool_calls, acc, outs, i) ==
    ExecuteOnSnapshot(registered, tool_calls, acc.rs, acc, outs, i)

\* BaseAgent._execute_tool_calls from the i-th call on: one call after the
\* other, each on the ledger the previous one left (acc.rs), the results
\* so far in acc.results.  outs[i] is what the knowledge base answers to
\* the i-th call.
RECURSIVE _execute_tool_calls(_, _, _, _, _)
_execute_tool_calls(registered, tool_calls, acc, outs, i) ==
    IF i > Len(tool_calls) THEN acc
    ELSE _execute_tool_calls(
             registered, tool_calls,
             CollectResult(tool_calls[i], acc.results,
                           execute_tool_call(registered, tool_calls[i],
                                             acc.rs, outs[i])),
             outs, i + 1)

\* ToolResult.to_message
ToolResultToMessage(res) ==
    [role |-> "tool", tool_call_id |-> res.tool_call_id,
     content |-> res.content]

\* A transcript that keeps only the first observation of a step.
ToolMessages_mutant(results) ==
    IF results = <<>> THEN <<>> ELSE <<ToolResultToMessage(Head(results))>>

RECURSIVE ToolMessages(_)
ToolMessages(results) ==
    IF results = <<>> THEN <<>>
    ELSE <<ToolResultToMessage(Head(results))>> \o ToolMessages(Tail(results))

\* _build_system_prompt: what the prompt shows of the ledger.
_build_system_prompt(rs) ==
    IF rs.contract_name = "" THEN <<"prompt">>
    ELSE <<"prompt", rs.contract_name, rs.current_section_index + 1,
           Len(rs.sections),
           [k \in 1..Len(rs.issues) |-> rs.issues[k].id]>>

_build_messages(rs) ==
    <<[role |-> "system", content |-> _build_system_prompt(rs)],
      [role |-> "user", content |-> <<"input">>]>>

_get_status_metadata(rs) ==
    [contract_name |-> rs.contract_name,
     total_sections |-> Len(rs.sections),
     current_section_index |-> rs.current_section_index,
     total_issues |-> Len(rs.issues),
     issues_by_severity |-> count_issues_by_severity(rs)]

\* AgentResult.success
AgentResultSuccess(res) == res.finish_reason \in {"stop", "tool_calls"}

MaxStepsMessage == "max_steps_limit_reached"

\* What the model may answer in the structured loop.  A response carries a
\* content (None when empty) and a list of tool calls; the call ids are
\* given by position when the response is received.
OkElement ==
    [clause |-> "c", problem |-> "p1", severity |-> "high", suggestion |-> "s"]
BadElement == [clause |-> "c", problem |-> "p1"]

ManageIssuesCalls ==
    {[operation |-> "add", clause |-> "c", problem |-> "p1",
      severity |-> "high", suggestion |-> "s"],
     [operation |-> "add", clause |-> "c", problem |-> "p1",
      severity |-> "urgent", suggestion |-> "s"],
     [operation |-> "batch_add", issues_json |-> <<OkElement, BadElement>>],
     [operation |-> "batch_add"],
     [operation |-> "next_section"],
     [operation |-> "prev_section"],
     [operation |-> "get_current_section"],
     [operation |-> "delete", issue_id |-> <<1, 1>>],
     [operation |-> "update", issue_id |-> <<1, 1>>, problem |-> "p2",
      severity |-> "urgent"],
     [operation |-> "update", issue_id |-> <<1, 1>>, severity |-> "int:5"],
     [operation |-> "confirm", issue_id |-> <<1, 1>>],
     [operation |-> "reject", issue_id |-> <<1, 1>>, feedback |-> "fb"],
     [operation |-> "list"],
     [operation |-> "export"]}

ToolCallChoices ==
    {[name |-> "manage_issues", arguments |-> a] : a \in ManageIssuesCalls}
        \cup {[name |-> "rag_query", arguments |-> [query |-> "q"]],
              [name |-> "load_contract", arguments |-> [path |-> "x"]]}

AddCall ==
    [name |-> "manage_issues",
     arguments |-> [operation |-> "add", clause |-> "c", problem |-> "p1",
                    severity |-> "high", suggestion |-> "s"]]
NextCall ==
    [name |-> "manage_issues", arguments |-> [operation |-> "next_section"]]
\* An update whose severity argument is a JSON number.
UpdateSeverityCall ==
    [name |-> "manage_issues",
     arguments |-> [operation |-> "update", issue_id |-> <<1, 1>>,
                    severity |-> "int:5"]]

ToolCallLists ==
    {<<c>> : c \in ToolCallChoices}
        \cup {<<AddCall, NextCall>>, <<NextCall, AddCall>>,
              <<AddCall, UpdateSeverityCall>>,
              <<[name |-> "load_contract", arguments |-> [path |-> "x"]],
                AddCall>>}

StructuredResponses ==
    {[content |-> c, tool_calls |-> <<>>] : c \in {None, "answer"}}
        \cup {[content |-> None, tool_calls |-> l] : l \in ToolCallLists}

\* The ids the provider gave the calls of the response of iteration n.
WithIds(tool_calls, n) ==
    [i \in 1..Len(tool_calls) |->
        [id |-> <<n, i>>, name |-> tool_calls[i].name,
         arguments |-> tool_calls[i].arguments]]

\* One iteration of ContractReviewAgent.run: one model call; a response with
\* tool calls has them executed and the results appended, any other response
\* ends the run with finish_reason "stop".
StructuredStep ==
    /\ agent = "structured" /\ pc = "llm" /\ InRange(step, max_steps)
    /\ step' = step + 1
    /\ llm_calls' = llm_calls + 1
    /\ \E response \in StructuredResponses :
          IF response.tool_calls # <<>>
          THEN \E outs \in [1..Len(response.tool_calls) -> RagOutcomes] :
                 \E calls \in {WithIds(response.tool_calls, step + 1)} :
                 \E r \in {_execute_tool_calls(
                               tools, calls,
                               [rs |-> review_state, results |-> <<>>],
                               outs, 1)} :
                     /\ review_state' = r.rs
                     /\ messages' =
                           messages
                             \o <<[role |-> "assistant",
                                   content |-> response.content,
                                   tool_calls |-> calls]>>
                             \o ToolMessages(r.results)
                     /\ all_tool_results' = all_tool_results \o r.results
                     /\ step_log' = Append(step_log,
                                           [kind |-> "tool_calls",
                                            calls |-> calls,
                                            before |-> review_state,
                                            after |-> r.rs,
                                            results |-> r.results])
                     /\ UNCHANGED <<pc, result>>
          ELSE /\ result' =
                     Some([content |-> IF response.content = None THEN ""
                                       ELSE response.content,
                           finish_reason |-> "stop",
                           messages |-> messages,
                           tool_results |-> all_tool_results,
                           metadata |-> _get_status_metadata(review_state)])
               /\ pc' = "done"
               /\ step_log' = Append(step_log, [kind |-> "final"])
               /\ UNCHANGED <<review_state, messages, all_tool_results>>
    /\ UNCHANGED <<agent, tools, max_steps, streamVars, loaderVars, reportVars, registryVars, autoVars>>

\* A loop that swallows the failure and goes on with the next iteration.
StructuredLlmError_mutant ==
    /\ agent = "structured" /\ pc = "llm" /\ InRange(step, max_steps)
    /\ step' = step + 1
    /\ llm_calls' = llm_calls + 1
    /\ step_log' = Append(step_log, [kind |-> "llm_error"])
    /\ UNCHANGED <<review_state, agent, tools, max_steps, pc, result,
                   messages, all_tool_results, streamVars, loaderVars, reportVars, registryVars, autoVars>>

\* The model call fails: the exception leaves run.
StructuredLlmError ==
    /\ agent = "structured" /\ pc = "llm" /\ InRange(step, max_steps)
    /\ step' = step + 1
    /\ llm_calls' = llm_calls + 1
    /\ pc' = "raised"
    /\ result' = Some([exception |-> "LLMError"])
    /\ step_log' = Append(step_log, [kind |-> "llm_error"])
    /\ UNCHANGED <<review_state, agent, tools, max_steps, messages,
                   all_tool_results, streamVars, loaderVars, reportVars, registryVars, autoVars>>

\* A result that drops the tool results.
MaxStepsResult_mutant(msgs, results, rs) ==
    [content |-> MaxStepsMessage, finish_reason |-> "max_steps",
     messages |-> msgs, tool_results |-> <<>>,
     metadata |-> _get_status_metadata(rs)]

\* The AgentResult built after the for loop.
MaxStepsResult(msgs, results, rs) ==
    [content |-> MaxStepsMessage, finish_reason |-> "max_steps",
     messages |-> msgs, tool_results |-> results,
     metadata |-> _get_status_metadata(rs)]

\* The for loop ran out: the synthetic result.
StructuredMaxSteps ==
    /\ agent = "structured" /\ pc = "llm" /\ ~InRange(step, max_steps)
    /\ result' = Some(MaxStepsResult(messages, all_tool_results,
                                     review_state))
    /\ pc' = "done"
    /\ step_log' = Append(step_log, [kind |-> "max_steps"])
    /\ UNCHANGED <<review_state, agent, tools, max_steps, step, llm_calls,
                   messages, all_tool_results, streamVars, loaderVars, reportVars, registryVars, autoVars>>

----------------------------------------------------------------------------
\* The textual dispatch loop: agent/react_agent.py

FinalMarker == <<"F", "i", "n", "a", "l", ":">>
ActionMarker == <<"A", "c", "t", "i", "o", "n", ":">>
ActionInputMarker ==
    <<"A", "c", "t", "i", "o", "n", " ", "I", "n", "p", "u", "t", ":">>
\* The grave accent (U+0060), written as a token of its own.
Backtick == "grave"
Fence == <<Backtick, Backtick, Backtick>>
Letters == {"a", "c", "j", "l", "n", "o", "s", "x", "p", "e", "k"}

\* The text after the marker as it stands.
_parse_final_mutant(text) ==
    IF ~Contains(text, FinalMarker) THEN Null
    ELSE Some(From(text, StrFind(text, FinalMarker) + Len(FinalMarker)))

\* _parse_final: None (Null) without the marker, else the stripped text after
\* its first occurrence.
_parse_final(text) ==
    IF ~Contains(text, FinalMarker) THEN Null
    ELSE Some(Strip(From(text, StrFind(text, FinalMarker) + Len(FinalMarker))))

\* re.search(r"Action:\s*(.+)", text) tried at the occurrence of "Action:"
\* that ends before position p: \s* takes the whitespace run greedily and
\* (.+) needs one character that is not a newline; when only whitespace is
\* left, \s* gives back characters until (.+) finds a blank to match.  The
\* result is the start of group 1, or 0 when there is no match here.
ActionGroupStart(text, p) ==
    LET nonws == {k \in p..Len(text) : text[k] \notin Whitespace}
        blanks == {k \in p..Len(text) : text[k] # "\n"}
    IN  IF nonws # {} THEN CHOOSE k \in nonws : \A j \in nonws : k <= j
        ELSE IF blanks # {} THEN CHOOSE k \in blanks : \A j \in blanks : k >= j
        ELSE 0

\* Group 1 runs to the end of its line.
LineEnd(text, start) ==
    LET nl == {k \in start..Len(text) : text[k] = "\n"}
    IN  IF nl = {} THEN Len(text)
        ELSE (CHOOSE k \in nl : \A j \in nl : k <= j) - 1

\* The group of the leftmost match, Null when the pattern matches nowhere.
ActionMatch(text) ==
    LET hits == {i \in 1..Len(text) :
                    /\ StartsWithAt(text, ActionMarker, i)
                    /\ ActionGroupStart(text, i + Len(ActionMarker)) # 0}
    IN  IF hits = {} THEN Null
        ELSE LET i == CHOOSE i \in hits : \A j \in hits : i <= j
                 start == ActionGroupStart(text, i + Len(ActionMarker))
             IN  Some(SubSeq(text, start, LineEnd(text, start)))

\* re.search(r"Action Input:\s*(.+)", text, re.S), group 1 stripped; "" when
\* there is no match.
RawInput(text) ==
    LET i == StrFind(text, ActionInputMarker)
    IN  IF i = 0 THEN <<>>
        ELSE Strip(From(text, i + Len(ActionInputMarker)))

\* The fence removal: three grave accents, letters and a newline at the
\* start; a newline and three grave accents at the end.
StripOpeningFence(raw) ==
    LET rest == From(raw, Len(Fence) + 1)
        stop == {k \in 1..Len(rest) : rest[k] \notin Letters}
    IN  IF stop = {} THEN raw
        ELSE LET k == CHOOSE k \in stop : \A j \in stop : k <= j
             IN  IF rest[k] = "\n" THEN From(rest, k + 1) ELSE raw

StripClosingFence(raw) ==
    LET tail == <<"\n">> \o Fence
    IN  IF Len(raw) >= Len(tail)
           /\ SubSeq(raw, Len(raw) - Len(tail) + 1, Len(raw)) = tail
        THEN SubSeq(raw, 1, Len(raw) - Len(tail))
        ELSE raw

Unfenced(raw) ==
    IF StartsWithAt(raw, Fence, 1)
    THEN Strip(StripClosingFence(StripOpeningFence(raw)))
    ELSE raw

\* json.loads on the texts of this alphabet: "{}" is the empty object, a run
\* of digits without a leading zero is a number; anything else raises
\* JSONDecodeError (Null).
JsonLoads(raw) ==
    IF raw = <<"{", "}">> THEN Some([type |-> "dict", value |-> <<>>])
    ELSE IF raw # <<>> /\ (\A k \in 1..Len(raw) : raw[k] \in Digits)
            /\ (Len(raw) = 1 \/ raw[1] # "0")
    THEN Some([type |-> "int", value |-> raw])
    ELSE Null

\* An input that is dropped when it is not valid JSON.
ParsedInput_mutant(raw) ==
    IF raw # <<>> /\ JsonLoads(raw) # Null THEN JsonLoads(raw)[1]
    ELSE [type |-> "dict", value |-> <<>>]

ParsedInput(raw) ==
    IF raw # <<>>
    THEN IF JsonLoads(raw) # Null THEN JsonLoads(raw)[1]
         ELSE [type |-> "dict", value |-> <<[key |-> "input", value |-> raw]>>]
    ELSE [type |-> "dict", value |-> <<>>]

\* _parse_action: "none" when "Action:" matches nowhere; split()[0] raises
\* IndexError when group 1 holds no token; else the name and the input.
_parse_action(text) ==
    LET m == ActionMatch(text)
    IN  IF m = Null THEN [kind |-> "none"]
        ELSE IF Strip(m[1]) = <<>> THEN [kind |-> "IndexError"]
        ELSE [kind |-> "action", name |-> FirstToken(m[1]),
              input |-> ParsedInput(Unfenced(RawInput(text)))]

\* _call_tool: an unknown name gives the text that lists the registered
\* names; an exception of the tool function gives "Tool error: ...".
ToolFuncOutcomes == {"returns", "raises"}

_call_tool(registered, name, action_input, outcome) ==
    IF name \notin registered THEN <<"Unknown tool", name, registered>>
    ELSE IF outcome = "raises" THEN <<"Tool error">>
    ELSE <<"tool_output", name>>

ReachedMaxText ==
    <<"Reached the maximum number of tool steps without a final answer.">>

Calc == <<"c", "a", "l", "c">>
Nope == <<"n", "o", "p", "e">>
ActionCalc ==
    ActionMarker \o <<" ">> \o Calc \o <<"\n">> \o ActionInputMarker
        \o <<" ", "{", "}">>

\* What the model may answer in the textual loop.
TextualResponses ==
    {FinalMarker \o <<" ", "o", "k", "\n">>,
     FinalMarker,
     ActionCalc \o <<"\n">> \o FinalMarker \o <<" ", "x">>,
     ActionCalc,
     ActionMarker \o <<"\n">> \o Calc \o <<" ", "x">> \o <<"\n">>
        \o ActionInputMarker \o <<" ", "1", "+", "1">>,
     ActionMarker \o <<" ">> \o Nope,
     ActionMarker \o <<" ">> \o Calc,
     ActionMarker \o <<" ">> \o Calc \o <<"\n">> \o ActionInputMarker
        \o <<" ">> \o Fence \o <<"j", "\n", "{", "}", "\n">> \o Fence,
     ActionMarker \o <<" ">>,
     ActionMarker \o <<" ", "\n">>,
     ActionMarker \o <<"\n">>,
     ActionMarker,
     <<"o", "k", " ">>,
     <<>>}

TextualToolNames == {Calc}

\* One iteration of ReActAgent.run.
TextualStep ==
    /\ agent = "textual" /\ pc = "llm" /\ InRange(step, max_steps)
    /\ step' = step + 1
    /\ llm_calls' = llm_calls + 1
    /\ \E assistant_text \in TextualResponses :
          LET final_text == _parse_final(assistant_text)
              action == _parse_action(assistant_text)
          IN  IF final_text # Null
              THEN /\ result' = Some([value |-> final_text[1]])
                   /\ pc' = "done"
                   /\ step_log' = Append(step_log,
                                         [kind |-> "final",
                                          text |-> assistant_text])
                   /\ UNCHANGED messages
              ELSE IF action.kind = "IndexError"
              THEN /\ result' = Some([exception |-> "IndexError"])
                   /\ pc' = "raised"
                   /\ step_log' = Append(step_log,
                                         [kind |-> "parse_error",
                                          text |-> assistant_text])
                   /\ UNCHANGED messages
              ELSE IF action.kind = "none"
              THEN /\ result' = Some([value |-> assistant_text])
                   /\ pc' = "done"
                   /\ step_log' = Append(step_log,
                                         [kind |-> "default_final",
                                          text |-> assistant_text])
                   /\ UNCHANGED messages
              ELSE \E outcome \in ToolFuncOutcomes :
                     LET observation ==
                             _call_tool(tools, action.name, action.input,
                                        outcome)
                     IN  /\ messages' =
                               messages
                                 \o <<[role |-> "assistant",
                                       content |-> assistant_text],
                                      [role |-> "user",
                                       content |-> <<"Observation">>
                                                     \o observation]>>
                         /\ step_log' = Append(step_log,
                                               [kind |-> "tool",
                                                text |-> assistant_text,
                                                name |-> action.name,
                                                input |-> action.input,
                                                outcome |-> outcome])
                         /\ UNCHANGED <<pc, result>>
    /\ UNCHANGED <<review_state, agent, tools, max_steps, all_tool_results,
                   streamVars, loaderVars, reportVars, registryVars, autoVars>>

TextualLlmError ==
    /\ agent = "textual" /\ pc = "llm" /\ InRange(step, max_steps)
    /\ step' = step + 1
    /\ llm_calls' = llm_calls + 1
    /\ pc' = "raised"
    /\ result' = Some([exception |-> "LLMError"])
    /\ step_log' = Append(step_log, [kind |-> "llm_error"])
    /\ UNCHANGED <<review_state, agent, tools, max_steps, messages,
                   all_tool_results, streamVars, loaderVars, reportVars, registryVars, autoVars>>

TextualMaxSteps ==
    /\ agent = "textual" /\ pc = "llm" /\ ~InRange(step, max_steps)
    /\ result' = Some([value |-> ReachedMaxText])
    /\ pc' = "done"
    /\ step_log' = Append(step_log, [kind |-> "max_steps"])
    /\ UNCHANGED <<review_state, agent, tools, max_steps, step, llm_calls,
                   messages, all_tool_results, streamVars, loaderVars, reportVars, registryVars, autoVars>>

\* A run of either loop.  The structured agent works on a ledger that is
\* empty or holds a loaded contract; its registry is the one
\* create_contract_tools builds, or an empty one.
LoadedLedger ==
    load_and_split_contract(EmptyReviewState,
                            TxtFile(ContractOfClauses(MaxSections))).rs

Init ==
    /\ agent \in {"structured", "textual"}
    /\ max_steps \in 0..MaxStepsBound
    /\ pc = "llm"
    /\ step = 0
    /\ llm_calls = 0
    /\ all_tool_results = <<>>
    /\ result = Null
    /\ step_log = <<>>
    /\ IF agent = "structured"
       THEN /\ review_state \in {EmptyReviewState, LoadedLedger}
            /\ tools \in {{"manage_issues", "rag_query"}, {}}
            /\ messages = _build_messages(review_state)
       ELSE /\ review_state = EmptyReviewState
            /\ tools \in {TextualToolNames, {}}
            /\ messages = <<[role |-> "system", content |-> <<"prompt">>],
                            [role |-> "user", content |-> <<"input">>]>>
    /\ IdleStream
    /\ IdleLoader
    /\ IdleReport
    /\ IdleAuto

Next ==
    \/ StructuredStep
    \/ StructuredLlmError
    \/ StructuredMaxSteps
    \/ TextualStep
    \/ TextualLlmError
    \/ TextualMaxSteps

Spec == Init /\ [][Next]_vars

----------------------------------------------------------------------------
\* The streaming reader: ReActAgent._stream_response and
\* Reflector._stream_response (the same code in both classes).

\* A reader that forgets what it has printed.
ProcessChunk_mutant(buf, fs, pr, content) ==
    IF content = <<>>
    THEN [buffer |-> buf, final_start |-> fs, printed |-> pr,
          payload |-> <<>>]
    ELSE IF fs = Null
    THEN IF StrFind(buf \o content, <<"F", "i", "n", "a", "l", ":">>) # 0
         THEN [buffer |-> buf \o content,
               final_start |->
                   Some(StrFind(buf \o content,
                                <<"F", "i", "n", "a", "l", ":">>) + 5),
               printed |-> pr,
               payload |-> From(buf \o content,
                                StrFind(buf \o content,
                                        <<"F", "i", "n", "a", "l", ":">>)
                                    + 6)]
         ELSE [buffer |-> buf \o content, final_start |-> fs,
               printed |-> pr, payload |-> <<>>]
    ELSE [buffer |-> buf \o content, final_start |-> fs, printed |-> pr,
          payload |-> From(buf \o content, fs[1] + pr + 1)]

\* What a chunk does to (buffer, final_start, printed) and what it passes to
\* stream_output (payload; empty when the callback is not invoked).
ProcessChunk(buf, fs, pr, content) ==
    IF content = <<>>
    THEN [buffer |-> buf, final_start |-> fs, printed |-> pr,
          payload |-> <<>>]
    ELSE IF fs = Null
    THEN IF Contains(buf \o content, FinalMarker)
         THEN [buffer |-> buf \o content,
               final_start |->
                   Some((StrFind(buf \o content, FinalMarker) - 1)
                            + Len(FinalMarker)),
               printed |->
                   IF From(buf \o content,
                           StrFind(buf \o content, FinalMarker)
                               + Len(FinalMarker)) # <<>>
                   THEN Len(From(buf \o content,
                                 StrFind(buf \o content, FinalMarker)
                                     + Len(FinalMarker)))
                   ELSE pr,
               payload |-> From(buf \o content,
                                StrFind(buf \o content, FinalMarker)
                                    + Len(FinalMarker))]
         ELSE [buffer |-> buf \o content, final_start |-> fs,
               printed |-> pr, payload |-> <<>>]
    ELSE [buffer |-> buf \o content, final_start |-> fs,
          printed |-> pr + Len(From(buf \o content, fs[1] + pr + 1)),
          payload |-> From(buf \o content, fs[1] + pr + 1)]

StreamPieces ==
    {FinalMarker, <<"F", "i", "n">>, <<"a", "l", ":">>, <<"x", "y">>,
     <<"F">>}

RECURSIVE PieceTexts(_)
PieceTexts(n) ==
    IF n = 0 THEN {<<>>}
    ELSE PieceTexts(n - 1)
           \cup {t \o q : t \in PieceTexts(n - 1), q \in StreamPieces}

StreamInit ==
    /\ review_state = EmptyReviewState
    /\ IdleLoop
    /\ IdleAuto
    /\ IdleLoader
    /\ IdleReport
    /\ stream_owner \in {"react", "reflector"}
    /\ stream_text \in PieceTexts(MaxStreamPieces)
    /\ stream_pos = 0
    /\ chunk_content = <<>>
    /\ buffer = <<>>
    /\ final_start = Null
    /\ printed = 0
    /\ streamed = <<>>

\* The provider delivers the next chunk (possibly one without content) and
\* the loop body of _stream_response runs on it.
DeliverChunk ==
    /\ stream_pos < Len(stream_text)
    /\ \E n \in 0..MaxChunk :
          /\ stream_pos + n <= Len(stream_text)
          /\ \E r \in {ProcessChunk(buffer, final_start, printed,
                                    SubSeq(stream_text, stream_pos + 1,
                                           stream_pos + n))} :
                /\ chunk_content' = SubSeq(stream_text, stream_pos + 1,
                                           stream_pos + n)
                /\ buffer' = r.buffer
                /\ final_start' = r.final_start
                /\ printed' = r.printed
                /\ streamed' = IF r.payload # <<>>
                                THEN Append(streamed, r.payload)
                                ELSE streamed
                /\ stream_pos' = stream_pos + n
    /\ UNCHANGED <<review_state, loopVars, loaderVars, reportVars, registryVars,
                   autoVars, stream_owner,
                   stream_text>>

ReActStreamChunk ==
    /\ stream_owner = "react"
    /\ DeliverChunk

ReflectorStreamChunk ==
    /\ stream_owner = "reflector"
    /\ DeliverChunk

StreamNext ==
    \/ ReActStreamChunk
    \/ ReflectorStreamChunk

SpecStream == StreamInit /\ [][StreamNext]_vars

----------------------------------------------------------------------------
\* The ledger driven through its own methods (the REPL commands and the
\* tools call them one at a time; there is one session and no concurrency).

\* The inputs the ledger operations are driven with.
\* Sections are added with the title and the body of a clause of the loaded
\* contracts.
SectionTitles ==
    [k \in 1..(MaxSections + 1) |-> <<Di, "yi", "tiao", " ", "a">>]
SectionBody == <<"b">>
\* Issue ids given to the operations: every id in the ledger, and one that
\* no issue has.
AbsentId == <<0, 0>>
IssueIdInputs ==
    {review_state.issues[k].id : k \in 1..Len(review_state.issues)}
        \cup {AbsentId}
UpdateKwargs ==
    {<<[key |-> "status", value |-> "resolved"]>>,
     <<[key |-> "severity", value |-> "urgent"]>>}

LedgerInit ==
    /\ review_state = EmptyReviewState
    /\ IdleLoop
    /\ IdleAuto
    /\ IdleStream
    /\ IdleLoader
    /\ IdleReport

Load ==
    /\ \E n \in 1..MaxSections :
          review_state' = LoadSections(review_state,
                                       TxtFile(ContractOfClauses(n)),
                                       ClauseSections[n]).rs
    /\ UNCHANGED <<loopVars, streamVars, loaderVars, reportVars, registryVars, autoVars>>

Reset ==
    /\ review_state' = reset(review_state)
    /\ UNCHANGED <<loopVars, streamVars, loaderVars, reportVars, registryVars, autoVars>>

AddSection ==
    /\ Len(review_state.sections) < MaxSections
    /\ review_state' =
          add_section(review_state,
                      SectionTitles[Len(review_state.sections) + 1],
                      SectionBody)
    /\ UNCHANGED <<loopVars, streamVars, loaderVars, reportVars, registryVars, autoVars>>

NextSection ==
    /\ review_state' = next_section(review_state).rs
    /\ UNCHANGED <<loopVars, streamVars, loaderVars, reportVars, registryVars, autoVars>>

PrevSection ==
    /\ review_state' = prev_section(review_state).rs
    /\ UNCHANGED <<loopVars, streamVars, loaderVars, reportVars, registryVars, autoVars>>

GoToSection ==
    /\ \E index \in -1..MaxSections :
          review_state' = go_to_section(review_state, index).rs
    /\ UNCHANGED <<loopVars, streamVars, loaderVars, reportVars, registryVars, autoVars>>

AddIssue ==
    /\ Len(review_state.issues) < MaxIssues
    /\ review_state' =
          add_issue(review_state, "c", "p1", "high", "s", Null).rs
    /\ UNCHANGED <<loopVars, streamVars, loaderVars, reportVars, registryVars, autoVars>>

UpdateIssue ==
    /\ \E issue_id \in IssueIdInputs, kwargs \in UpdateKwargs :
          review_state' = update_issue(review_state, issue_id, kwargs).rs
    /\ UNCHANGED <<loopVars, streamVars, loaderVars, reportVars, registryVars, autoVars>>

DeleteIssue ==
    /\ \E issue_id \in IssueIdInputs :
          review_state' = delete_issue(review_state, issue_id).rs
    /\ UNCHANGED <<loopVars, streamVars, loaderVars, reportVars, registryVars, autoVars>>

ConfirmIssue ==
    /\ \E issue_id \in IssueIdInputs :
          review_state' = confirm_issue(review_state, issue_id).rs
    /\ UNCHANGED <<loopVars, streamVars, loaderVars, reportVars, registryVars, autoVars>>

RejectIssue ==
    /\ \E issue_id \in IssueIdInputs :
          review_state' = reject_issue(review_state, issue_id, "fb").rs
    /\ UNCHANGED <<loopVars, streamVars, loaderVars, reportVars, registryVars, autoVars>>

LedgerNext ==
    \/ Load
    \/ Reset
    \/ AddSection
    \/ NextSection
    \/ PrevSection
    \/ GoToSection
    \/ AddIssue
    \/ UpdateIssue
    \/ DeleteIssue
    \/ ConfirmIssue
    \/ RejectIssue

SpecLedger == LedgerInit /\ [][LedgerNext]_vars

----------------------------------------------------------------------------
\* The report taken from a ledger in use: the ledger is loaded, moved in and
\* given issues, and export_report is applied to it once.

ExportReport ==
    /\ report = Null
    /\ \E r \in {export_report(review_state)} :
          /\ review_state' = r.rs
          /\ report' = Some([ret |-> r.ret, before |-> review_state])
    /\ UNCHANGED <<loopVars, streamVars, loaderVars, registryVars, autoVars>>

ReportNext ==
    \/ report = Null /\ Load
    \/ report = Null /\ NextSection
    \/ report = Null /\ PrevSection
    \/ report = Null /\ AddIssue
    \/ report = Null /\ DeleteIssue
    \/ report = Null /\ RejectIssue
    \/ ExportReport

SpecReport == LedgerInit /\ [][ReportNext]_vars

----------------------------------------------------------------------------
\* The tool registry: core/tool.py ToolRegistry and tools/__init__.py
\* ToolRegistry keep a dict from tool name to tool.  A dict keeps its keys
\* in insertion order, and assigning to a key it holds keeps the key's place.

\* register that adds an entry whatever the registry holds.
register_mutant(entries, tool) == Append(entries, tool)

\* register: self._tools[tool.name] = tool
register(entries, tool) ==
    IF \E k \in 1..Len(entries) : entries[k].name = tool.name
    THEN [k \in 1..Len(entries) |->
             IF entries[k].name = tool.name THEN tool ELSE entries[k]]
    ELSE Append(entries, tool)

\* get: self._tools.get(name), Null for None.
RegistryGet(entries, name) ==
    LET hits == {k \in 1..Len(entries) : entries[k].name = name}
    IN  IF hits = {} THEN Null
        ELSE Some(entries[CHOOSE k \in hits : \A j \in hits : k <= j])

\* The tools given to register: two implementations under each name.
RegistryNames == {"manage_issues", "rag_query"}
ToolInstances == {[name |-> n, impl |-> v] : n \in RegistryNames, v \in 1..2}

RegistryInit ==
    /\ review_state = EmptyReviewState
    /\ IdleLoop
    /\ IdleAuto
    /\ IdleStream
    /\ IdleLoader
    /\ report = Null
    /\ _tools = <<>>
    /\ register_log = <<>>

Register ==
    /\ Len(register_log) < MaxRegistrations
    /\ \E tool \in ToolInstances :
          /\ _tools' = register(_tools, tool)
          /\ register_log' = Append(register_log, tool)
    /\ UNCHANGED <<review_state, loopVars, streamVars, loaderVars, reportVars,
                   autoVars>>

RegistryNext == Register

SpecRegistry == RegistryInit /\ [][RegistryNext]_vars

----------------------------------------------------------------------------
\* The loader driven on one file: the segmenter applied to the file's text,
\* and load_and_split_contract applied to the file and the ledger.

NumericClauseLine == <<Di, "1", "tiao", " ", "c", "\n", "d", "\n">>
AppendixOne == <<Fu, "jian", "1", ":", "t", "\n", "b", "b", "\n">>
AppendixOneLong ==
    <<Fu, "jian", "1", "fcolon", "u", "\n", "b", "b", "b", "b", "\n">>
AppendixTen == <<Fu, "jian", "1", "0", ":", "v", "\n", "c", "c", "c", "\n">>
ShortPreamble == <<"h", "d", "\n">>
LongPreamble == [k \in 1..(HeaderMinLength + 1) |-> "x"] \o <<"\n">>
BareClause == <<Di, "er", "zhang", "\n">>
MidLine == <<"x", " ">>
SegmentPieces ==
    {ClauseLine, NumericClauseLine, AppendixOne, AppendixOneLong,
     AppendixTen, ShortPreamble, LongPreamble, BareClause, MidLine}

RECURSIVE ContractTexts(_)
ContractTexts(n) ==
    IF n = 0 THEN {<<>>}
    ELSE ContractTexts(n - 1)
           \cup {t \o q : t \in ContractTexts(n - 1), q \in SegmentPieces}

\* Three clauses and one appendix block, without preamble.
ScenarioText == ClauseLine \o ClauseLine \o ClauseLine \o AppendixOne
\* An appendix whose identifier begins with the identifier that is then
\* reported twice.
PrefixText == AppendixTen \o AppendixOne \o AppendixOneLong

\* The files that cannot be loaded: a missing path, an extension that is
\* not handled, a text file whose bytes are not UTF-8, a .docx that neither
\* reader can parse, and an empty text file.
FailingFiles ==
    {[TxtFile(ClauseLine) EXCEPT !.exists = FALSE],
     [TxtFile(ClauseLine) EXCEPT !.ext = ".pdf"],
     [TxtFile(ClauseLine) EXCEPT !.decodable = FALSE],
     [TxtFile(ClauseLine) EXCEPT !.ext = ".docx", !.decodable = FALSE],
     TxtFile(<<>>)}
Files ==
    {TxtFile(c) : c \in ContractTexts(MaxContractPieces)
                          \cup {ScenarioText, PrefixText}}
        \cup {[TxtFile(ClauseLine) EXCEPT !.ext = e] : e \in {".md", ".docx"}}
        \cup FailingFiles

\* A ledger in use: a loaded contract, the cursor moved, one issue recorded.
UsedLedger ==
    add_issue(next_section(LoadedLedger).rs, "c", "p", "high", "s", Null).rs

LoaderInit ==
    /\ review_state \in {EmptyReviewState, UsedLedger}
    /\ input_file \in Files
    /\ split_result = Null
    /\ load_result = Null
    /\ IdleLoop
    /\ IdleAuto
    /\ IdleStream
    /\ IdleReport

\* _split_sections(content) on the text of a readable file.
SplitSections ==
    /\ split_result = Null
    /\ input_file.decodable
    /\ split_result' = Some(_split_sections(input_file.content))
    /\ UNCHANGED <<review_state, loopVars, streamVars, reportVars, registryVars,
                   autoVars, input_file, load_result>>

\* load_and_split_contract(state, path).
LoadContract ==
    /\ load_result = Null
    /\ \E r \in {load_and_split_contract(review_state, input_file)} :
          /\ review_state' = r.rs
          /\ load_result' = Some([ret |-> r.ret, raised |-> r.raised,
                                  before |-> review_state])
    /\ UNCHANGED <<loopVars, streamVars, reportVars, registryVars, autoVars,
                   input_file, split_result>>

LoaderNext ==
    \/ SplitSections
    \/ LoadContract

SpecLoader == LoaderInit /\ [][LoaderNext]_vars

----------------------------------------------------------------------------
\* Auto review: run_repl.run_auto_review in app.py
\*
\* auto_review.pc is the position in run_auto_review: "test" at the while
\* condition, "review" inside the turn that reviews the current section,
\* "advance" inside the turn that asks for the next section, "done" after
\* the loop.  A turn is one agent.run: up to max_steps tool calls of the
\* model's choosing on the ledger, then the turn returns.

\* What the model may call during a turn.
TurnCalls ==
    {[operation |-> "next_section"],
     [operation |-> "prev_section"],
     [operation |-> "get_current_section"],
     [operation |-> "add", clause |-> "c", problem |-> "p1",
      severity |-> "high", suggestion |-> "s"],
     [operation |-> "confirm", issue_id |-> <<1, 1>>]}

AutoReviewInit ==
    /\ \E n \in 1..MaxSections, index \in 0..(MaxSections - 1) :
          review_state =
              go_to_section(
                  LoadSections(EmptyReviewState,
                               TxtFile(ContractOfClauses(n)),
                               ClauseSections[n]).rs,
                  index).rs
    /\ auto_review = [pc |-> "test", steps |-> 0]
    /\ IdleLoop
    /\ IdleStream
    /\ IdleLoader
    /\ IdleReport

\* while agent.state.current_section_index < agent.state.total_sections
AutoReviewTest ==
    /\ auto_review.pc = "test"
    /\ auto_review' =
          IF review_state.current_section_index < Len(review_state.sections)
          THEN [pc |-> "review", steps |-> 0]
          ELSE [pc |-> "done", steps |-> 0]
    /\ UNCHANGED <<review_state, loopVars, streamVars, loaderVars, reportVars,
                   registryVars>>

\* One tool call of the running turn.
TurnToolCall ==
    /\ auto_review.pc \in {"review", "advance"}
    /\ InRange(auto_review.steps, MaxStepsBound)
    /\ \E args \in TurnCalls :
          /\ args.operation = "add" => Len(review_state.issues) < MaxIssues
          /\ review_state' = ManageIssuesExecute(review_state, args).rs
    /\ auto_review' = [auto_review EXCEPT !.steps = @ + 1]
    /\ UNCHANGED <<loopVars, streamVars, loaderVars, reportVars,
                   registryVars>>

\* The review turn returns; the loop asks for the next section unless the
\* cursor is on the last one, where it breaks.
ReviewTurnReturns ==
    /\ auto_review.pc = "review"
    /\ auto_review' =
          IF review_state.current_section_index
                < Len(review_state.sections) - 1
          THEN [pc |-> "advance", steps |-> 0]
          ELSE [pc |-> "done", steps |-> 0]
    /\ UNCHANGED <<review_state, loopVars, streamVars, loaderVars, reportVars,
                   registryVars>>

\* The "next section" turn returns and the loop goes back to its condition.
AdvanceTurnReturns ==
    /\ auto_review.pc = "advance"
    /\ auto_review' = [pc |-> "test", steps |-> 0]
    /\ UNCHANGED <<review_state, loopVars, streamVars, loaderVars, reportVars,
                   registryVars>>

AutoReviewNext ==
    \/ AutoReviewTest
    \/ TurnToolCall
    \/ ReviewTurnReturns
    \/ AdvanceTurnReturns

SpecAutoReview == AutoReviewInit /\ [][AutoReviewNext]_vars

\* Every turn returns and the loop goes on after it.
FairAutoReview == SpecAutoReview /\ WF_vars(AutoReviewNext)

----------------------------------------------------------------------------
\* Properties.

Last(s) == s[Len(s)]

\* buffer.split("Final:", 1)[1], or "" without the marker.
AfterFirstFinal(b) ==
    IF Contains(b, FinalMarker)
    THEN From(b, StrFind(b, FinalMarker) + Len(FinalMarker))
    ELSE <<>>

\* Every model call and every tool call returns: a run that can take a step
\* takes it.
FairSpec == Spec /\ WF_vars(Next)

\* The number of tool calls of the first k iterations.
RECURSIVE CallCount(_, _)
CallCount(log, k) ==
    IF k = 0 THEN 0
    ELSE CallCount(log, k - 1)
           + (IF log[k].kind = "tool_calls" THEN Len(log[k].calls) ELSE 0)

\* The only exceptions that leave a run are those of the model call and of
\* the response parser.
OnlyModelSideRaises ==
    pc = "raised" => Last(step_log).kind \in {"llm_error", "parse_error"}

\* C1: a run of either loop makes at most max_steps model calls, and when
\* every call returns it ends after at most max_steps iterations.
C1_AtMostMaxSteps ==
    /\ [](llm_calls <= max_steps /\ step <= max_steps /\ llm_calls = step)
    /\ <>(pc \in {"done", "raised"})

C1_Witness_BoundReached ==
    /\ pc = "done"
    /\ max_steps >= 2
    /\ llm_calls = max_steps
    /\ Last(step_log).kind = "max_steps"

\* C2: however the response is cut into chunks, nothing is passed to the
\* callback before the buffer holds "Final:", and the payloads, joined in
\* order, are exactly the buffer's text after the first "Final:".
C2_StreamsTextAfterFinal ==
    /\ streamed # <<>> => Contains(buffer, FinalMarker)
    /\ Cat(streamed) = AfterFirstFinal(buffer)

\* The chunk that completed the marker began inside it and carried text
\* after it.
C2_Witness_SplitMarker ==
    /\ final_start # Null
    /\ Len(streamed) = 1
    /\ Len(buffer) - Len(chunk_content) > final_start[1] - Len(FinalMarker)
    /\ Len(buffer) - Len(chunk_content) < final_start[1]
    /\ Len(buffer) > final_start[1]

\* C3: in every state of the ledger the cursor is between 0 and the number
\* of sections.
C3_CursorInRange ==
    /\ 0 <= review_state.current_section_index
    /\ review_state.current_section_index <= Len(review_state.sections)

C3_Witness_CursorAtLastSection ==
    /\ Len(review_state.sections) >= 2
    /\ review_state.current_section_index = Len(review_state.sections) - 1
    /\ review_state.issues # <<>>

\* C4: no two issues of the same section share an id.
C4_NoDuplicateIds ==
    \A i, j \in 1..Len(review_state.issues) :
        (i # j /\ review_state.issues[i].section_index
                    = review_state.issues[j].section_index)
            => review_state.issues[i].id # review_state.issues[j].id

\* C5: an exception of a tool's executor becomes an error observation
\* marked unsuccessful, it does not leave the run, and the loop goes on.
C5_ToolExceptionBecomesObservation ==
    /\ OnlyModelSideRaises
    /\ \A k \in 1..Len(step_log) :
          /\ step_log[k].kind = "tool_calls" =>
                /\ k = Len(step_log) => pc = "llm"
                /\ Len(step_log[k].results) = Len(step_log[k].calls)
                /\ (/\ step_log[k].calls[1].name \in tools
                    /\ ToolExecute(step_log[k].calls[1].name,
                                   step_log[k].before,
                                   step_log[k].calls[1].arguments,
                                   "results").raised)
                      => /\ ~step_log[k].results[1].success
                         /\ Head(step_log[k].results[1].content) = "Error"
                         /\ \E m \in 1..Len(messages) :
                               /\ messages[m].role = "tool"
                               /\ messages[m].tool_call_id
                                    = step_log[k].calls[1].id
                               /\ messages[m].content
                                    = step_log[k].results[1].content
          /\ (/\ step_log[k].kind = "tool"
              /\ step_log[k].name \in tools
              /\ step_log[k].outcome = "raises")
                => /\ k = Len(step_log) => pc = "llm"
                   /\ messages[2 + 2 * k].role = "user"
                   /\ messages[2 + 2 * k].content
                        = <<"Observation", "Tool error">>

\* manage_issues was called with a keyword its executor does not take, and
\* the loop went on to another tool call.
C5_Witness_ExecutorRaised ==
    /\ agent = "structured"
    /\ Len(step_log) >= 2
    /\ step_log[1].kind = "tool_calls"
    /\ step_log[1].calls[1].name \in tools
    /\ step_log[1].results[1].error = <<"TypeError">>
    /\ step_log[2].kind = "tool_calls"

\* C6: a call of an unregistered tool raises nothing out of the loop; its
\* observation names the registered tools and joins the transcript, and the
\* loop goes on.
C6_UnknownToolObservation ==
    /\ OnlyModelSideRaises
    /\ \A k \in 1..Len(step_log) :
          /\ step_log[k].kind = "tool_calls" =>
                \A i \in 1..Len(step_log[k].calls) :
                    step_log[k].calls[i].name \notin tools =>
                        /\ k = Len(step_log) => pc = "llm"
                        /\ ~step_log[k].results[i].success
                        /\ tools # {} =>
                              step_log[k].results[i].content[4].available_tools
                                  = tools
                        /\ \E m \in 1..Len(messages) :
                              /\ messages[m].role = "tool"
                              /\ messages[m].tool_call_id
                                   = step_log[k].calls[i].id
                              /\ messages[m].content
                                   = step_log[k].results[i].content
          /\ (step_log[k].kind = "tool" /\ step_log[k].name \notin tools)
                => /\ k = Len(step_log) => pc = "llm"
                   /\ messages[2 + 2 * k].content
                        = <<"Observation", "Unknown tool", step_log[k].name,
                            tools>>

C6_Witness_UnknownToolThenNextStep ==
    /\ agent = "structured"
    /\ tools # {}
    /\ Len(step_log) >= 2
    /\ step_log[1].kind = "tool_calls"
    /\ step_log[1].calls[1].name \notin tools
    /\ step_log[2].kind = "tool_calls"

\* C7: every response of the textual loop is classified as a tool call, a
\* final answer or an unparseable response taken as the answer; parsing a
\* response never raises.
C7_EveryResponseClassified ==
    agent = "textual" =>
        \A k \in 1..Len(step_log) : step_log[k].kind # "parse_error"

\* C8 (as the code has it): a response of the textual loop that contains
\* "Final:" ends the run at that step with the text after the first
\* "Final:", stripped of surrounding whitespace, and no tool is executed in
\* that step.
C8_FinalReturnsStrippedText ==
    agent = "textual" =>
        \A k \in 1..Len(step_log) :
            (/\ step_log[k].kind \in {"final", "tool", "default_final",
                                      "parse_error"}
             /\ Contains(step_log[k].text, FinalMarker))
              => /\ step_log[k].kind = "final"
                 /\ k = Len(step_log)
                 /\ pc = "done"
                 /\ result
                      = Some([value |-> Strip(AfterFirstFinal(step_log[k].text))])
                 /\ Len(messages) = 2 + 2 * (k - 1)

\* C8 (as stated): the run returns the text after the first "Final:".
C8_FinalReturnsTextAfterMarker ==
    agent = "textual" =>
        \A k \in 1..Len(step_log) :
            (/\ step_log[k].kind \in {"final", "tool", "default_final",
                                      "parse_error"}
             /\ Contains(step_log[k].text, FinalMarker))
              => /\ step_log[k].kind = "final"
                 /\ k = Len(step_log)
                 /\ pc = "done"
                 /\ result = Some([value |-> AfterFirstFinal(step_log[k].text)])
                 /\ Len(messages) = 2 + 2 * (k - 1)

\* After a tool step, a response with both an "Action:" line and "Final:".
C8_Witness_FinalWithActionLine ==
    /\ agent = "textual"
    /\ pc = "done"
    /\ Len(step_log) >= 2
    /\ Last(step_log).kind = "final"
    /\ Contains(Last(step_log).text, ActionMarker)
    /\ result = Some([value |-> <<"x">>])

\* C9: when every one of the max_steps iterations of the structured loop
\* ended in tool calls, run returns (it does not raise) the synthetic
\* message with finish_reason "max_steps", the transcript and every tool
\* result.
C9_MaxStepsResult ==
    (/\ agent = "structured"
     /\ pc # "llm"
     /\ step = max_steps
     /\ \A k \in 1..max_steps : step_log[k].kind = "tool_calls")
      => /\ pc = "done"
         /\ result[1].finish_reason = "max_steps"
         /\ result[1].finish_reason # "error"
         /\ result[1].content = MaxStepsMessage
         /\ result[1].messages = messages
         /\ result[1].tool_results = all_tool_results
         /\ Len(result[1].tool_results) = CallCount(step_log, max_steps)
         /\ Len(result[1].messages)
              = 2 + max_steps + CallCount(step_log, max_steps)

C9_Witness_AllStepsToolCalls ==
    /\ agent = "structured"
    /\ pc = "done"
    /\ max_steps >= 2
    /\ \A k \in 1..max_steps : step_log[k].kind = "tool_calls"
    /\ Len(all_tool_results) >= 2

\* An element of issues_json with the four required fields and a severity
\* of the enumeration.
WellFormedElement(el) ==
    /\ {"clause", "problem", "suggestion", "severity"} \subseteq DOMAIN el
    /\ el.severity \in Severity

\* C10: batch_add with issues_json adds one issue for every well-formed
\* element of the array, whatever the other elements are.
C10_BatchAddAddsWellFormed ==
    \A k \in 1..Len(step_log) :
        (/\ step_log[k].kind = "tool_calls"
         /\ Len(step_log[k].calls) = 1
         /\ step_log[k].calls[1].name = "manage_issues"
         /\ "manage_issues" \in tools
         /\ Has(step_log[k].calls[1].arguments, "operation")
         /\ step_log[k].calls[1].arguments.operation = "batch_add"
         /\ Has(step_log[k].calls[1].arguments, "issues_json"))
          => Len(step_log[k].after.issues)
               = Len(step_log[k].before.issues)
                   + Cardinality(
                       {i \in 1..Len(step_log[k].calls[1].arguments.issues_json) :
                          WellFormedElement(
                            step_log[k].calls[1].arguments.issues_json[i])})

\* C11: every issue of the ledger has a severity and a status of the
\* enumerations.
C11_EnumValuesValid ==
    \A k \in 1..Len(review_state.issues) :
        /\ review_state.issues[k].severity \in Severity
        /\ review_state.issues[k].status \in IssueStatus

\* C12: every issue was created for a section that existed.  Sections are
\* only appended, or cleared together with the issues, so an issue created
\* for an existing section still refers to one.
C12_IssuesReferToSections ==
    \A k \in 1..Len(review_state.issues) :
        /\ 0 <= review_state.issues[k].section_index
        /\ review_state.issues[k].section_index < Len(review_state.sections)

\* C13: in every state of the ledger, next_section with the cursor at the
\* last section index, prev_section with the cursor at 0, and go_to_section
\* with an index outside 0..len(sections)-1 return None and leave the ledger
\* as it is; the tool's next_section and prev_section report it as text and
\* raise nothing.
C13_BoundaryMovesReturnNull ==
    /\ review_state.current_section_index = Len(review_state.sections) - 1
          => /\ next_section(review_state)
                  = [rs |-> review_state, ret |-> Null]
             /\ _next_section(review_state)
                  = [rs |-> review_state,
                     content |-> <<"already_last_section">>,
                     raised |-> FALSE]
    /\ review_state.current_section_index = 0
          => /\ prev_section(review_state)
                  = [rs |-> review_state, ret |-> Null]
             /\ _prev_section(review_state)
                  = [rs |-> review_state,
                     content |-> <<"already_first_section">>,
                     raised |-> FALSE]
    /\ \A index \in -2..(Len(review_state.sections) + 2) :
          (index < 0 \/ index >= Len(review_state.sections))
              => go_to_section(review_state, index)
                    = [rs |-> review_state, ret |-> Null]

\* The cursor was moved to the last of several sections, where next_section
\* has nowhere to go.
C13_Witness_CursorAtBoundary ==
    /\ Len(review_state.sections) >= 2
    /\ review_state.current_section_index = Len(review_state.sections) - 1
    /\ next_section(review_state).ret = Null
    /\ prev_section(review_state).ret # Null

\* C14: in every state of the ledger the i-th section (counted from 0) has
\* index i, so the indices are 0..len(sections)-1, each used once, and a
\* section that stays in the list keeps its index.
C14_SectionIndicesContiguous ==
    \A k \in 1..Len(review_state.sections) :
        review_state.sections[k].index = k - 1

\* Two sections appended one by one to a ledger without a loaded contract.
C14_Witness_SectionsAdded ==
    /\ review_state.contract_name = ""
    /\ Len(review_state.sections) >= 2
    /\ review_state.sections[2].index = 1


\* The text of a contract apart from whitespace and title punctuation, and
\* the text the returned sections hold (the two fixed titles are not text of
\* the contract).
Essence(s) ==
    SelectSeq(s, LAMBDA ch : ch \notin Whitespace \cup TitleDelimiters)
RECURSIVE KeptText(_)
KeptText(sections) ==
    IF sections = <<>> THEN <<>>
    ELSE (IF Head(sections)[1] \in {BasicInfoTitle, FullTextTitle} THEN <<>>
          ELSE Essence(Head(sections)[1]))
            \o Essence(Head(sections)[2]) \o KeptText(Tail(sections))
AppendixIdsOf(content) ==
    [i \in 1..Len(Finditer(content, "appendix", 0)) |->
        Finditer(content, "appendix", 0)[i].group1]
DistinctAppendixIds(content) ==
    \A i, j \in 1..Len(AppendixIdsOf(content)) :
        i # j => AppendixIdsOf(content)[i] # AppendixIdsOf(content)[j]
\* The offset of the first clause marker of the main body, the end of the
\* main body when it has none.
PreambleEnd(content) ==
    LET main_content ==
            Slice(content, 0,
                  MainContentEnd(content, Finditer(content, "appendix", 0)))
    IN  IF MainMatches(main_content) # <<>>
        THEN MainMatches(main_content)[1].start
        ELSE Len(main_content)

\* C15: when no appendix identifier is reported twice, the sections hold the
\* whole text of the contract, in order and once, or the whole text but a
\* preamble of at most 50 characters.
C15_NoTextDropped ==
    (split_result # Null /\ DistinctAppendixIds(input_file.content)) =>
        \/ KeptText(split_result[1]) = Essence(input_file.content)
        \/ /\ Len(Strip(Slice(input_file.content, 0,
                              PreambleEnd(input_file.content))))
                 <= HeaderMinLength
           /\ KeptText(split_result[1])
                 = Essence(From(input_file.content,
                                PreambleEnd(input_file.content) + 1))

\* The sections of one appendix identifier: the title begins with the
\* identifier and the identifier's numeral ends there.
SectionsOfAppendix(sections, appendix_id) ==
    {k \in 1..Len(sections) :
        /\ StartsWithAt(sections[k][1], appendix_id, 1)
        /\ \/ Len(sections[k][1]) = Len(appendix_id)
           \/ sections[k][1][Len(appendix_id) + 1] \notin AppendixNumerals}
\* The bodies the appendix markers of one identifier introduce.
BodiesOfAppendix(content, appendix_id) ==
    {AppendixContent(content, Finditer(content, "appendix", 0), i) :
        i \in {j \in 1..Len(AppendixIdsOf(content)) :
                  AppendixIdsOf(content)[j] = appendix_id}}
RepeatedAppendixIds(content) ==
    {AppendixIdsOf(content)[i] : i \in
        {j \in 1..Len(AppendixIdsOf(content)) :
            \E k \in 1..Len(AppendixIdsOf(content)) :
                k # j /\ AppendixIdsOf(content)[k] = AppendixIdsOf(content)[j]}}

\* C16: an appendix identifier reported by two markers has exactly one
\* section, whose body is the longer of the bodies the markers introduce.
C16_DuplicateAppendixKeepsLonger ==
    split_result # Null =>
        \A appendix_id \in RepeatedAppendixIds(input_file.content) :
            /\ Cardinality(SectionsOfAppendix(split_result[1], appendix_id))
                  = 1
            /\ \A k \in SectionsOfAppendix(split_result[1], appendix_id) :
                  /\ split_result[1][k][2]
                        \in BodiesOfAppendix(input_file.content, appendix_id)
                  /\ \A body \in BodiesOfAppendix(input_file.content,
                                                  appendix_id) :
                        Len(split_result[1][k][2]) >= Len(body)

NoMarkerAnywhere(content) ==
    /\ Finditer(content, "appendix", 0) = <<>>
    /\ Finditer(content, "clause", 0) = <<>>
    /\ Finditer(content, "numeric_clause", 0) = <<>>

\* C17: the segmenter returns at least one section, and for a text without
\* any clause or appendix marker exactly one, titled "full text", whose body
\* is the whole text (without the whitespace around it).
C17_SegmentationTotal ==
    split_result # Null =>
        /\ Len(split_result[1]) >= 1
        /\ NoMarkerAnywhere(input_file.content) =>
              split_result[1]
                 = <<<<FullTextTitle, Strip(input_file.content)>>>>
C17_Witness_ClauseWordsInsideALine ==
    /\ split_result # Null
    /\ NoMarkerAnywhere(input_file.content)
    /\ Contains(input_file.content, <<Di, "yi", "tiao">>)
    /\ split_result[1][1][1] = FullTextTitle
    /\ Len(split_result[1][1][2]) > 0

\* The loads that fail: the path is missing, the extension is not one the
\* reader handles, or the bytes do not decode into a non-empty text.
SupportedExtensions == {".txt", ".md", ".docx"}
LoadFails(f) ==
    \/ ~f.exists
    \/ f.ext \notin SupportedExtensions
    \/ ~f.decodable
    \/ f.content = <<>>

\* C18: a load that fails returns an error text and does not raise, reports
\* an extension that is not handled as an unsupported file type, and leaves
\* the ledger as it was before the call.
C18_FailedLoadReturnsErrorText ==
    (load_result # Null /\ LoadFails(input_file)) =>
        /\ ~load_result[1].raised
        /\ load_result[1].ret.kind = "error"
        /\ (input_file.exists /\ input_file.ext \notin SupportedExtensions)
              => load_result[1].ret.message = "unsupported_file_type"
        /\ review_state = load_result[1].before

\* C19: a failed model call is the last thing its run does: the run ends
\* with the exception, the failed call is the run's last model call, and no
\* tool runs after it.
C19_LlmErrorEndsRun ==
    \A k \in 1..Len(step_log) :
        step_log[k].kind = "llm_error" =>
            /\ k = Len(step_log)
            /\ pc = "raised"
            /\ result = Some([exception |-> "LLMError"])
            /\ llm_calls = k
            /\ agent = "structured" =>
                  Len(all_tool_results)
                     = CallCount(step_log, Len(step_log) - 1)
C19_Witness_ErrorAfterToolStep ==
    /\ Len(step_log) >= 2
    /\ step_log[1].kind \in {"tool_calls", "tool"}
    /\ Last(step_log).kind = "llm_error"
    /\ pc = "raised"

\* C20: whenever the structured loop is about to call the model, the system
\* message of the transcript it sends is the prompt of the ledger as it is
\* then.
C20_PromptDescribesCurrentLedger ==
    (agent = "structured" /\ pc = "llm" /\ InRange(step, max_steps)) =>
        /\ messages[1].role = "system"
        /\ messages[1].content = _build_system_prompt(review_state)

\* The counts and the total a list or export result reports.
ReportedCounts(content) == content[Len(content)]
ReportedTotal(content) == content[Len(content) - 1]
IssuesOfSeverity(rs, sev) ==
    Len(SelectSeq(rs.issues, LAMBDA i : i.severity = sev))

\* C21: a list or an export that returns reports, for each severity, the
\* number of issues of that severity in the ledger, and counts that sum to
\* the total it reports.
C21_SeverityCountsSumToTotal ==
    \A k \in 1..Len(step_log) :
        (/\ step_log[k].kind = "tool_calls"
         /\ step_log[k].calls[1].name = "manage_issues"
         /\ "manage_issues" \in tools
         /\ step_log[k].calls[1].arguments.operation \in {"list", "export"}
         /\ step_log[k].results[1].success
         /\ Len(step_log[k].results[1].content) >= 3) =>
            /\ \A sev \in Severity :
                  ReportedCounts(step_log[k].results[1].content)[sev]
                     = IssuesOfSeverity(step_log[k].before, sev)
            /\ ReportedCounts(step_log[k].results[1].content)["high"]
                 + ReportedCounts(step_log[k].results[1].content)["medium"]
                 + ReportedCounts(step_log[k].results[1].content)["low"]
                 = ReportedTotal(step_log[k].results[1].content)

KindsOf(lines) == [k \in 1..Len(lines) |-> lines[k].kind]
ReportHeadKinds ==
    <<"title", "contract_name", "created_at", "total_sections",
      "total_issues", "summary_heading", "high", "medium", "low",
      "details_heading">>

\* C22: export_report leaves the ledger as it was, and its output is the
\* title block, the severity summary, then the findings section by section
\* with the sections in ascending index order.
C22_ExportIsPureRead ==
    report # Null =>
        /\ review_state = report[1].before
        /\ Len(report[1].ret) >= Len(ReportHeadKinds)
        /\ SubSeq(KindsOf(report[1].ret), 1, Len(ReportHeadKinds))
              = ReportHeadKinds
        /\ \A k \in (Len(ReportHeadKinds) + 1)..Len(report[1].ret) :
              /\ report[1].ret[k].kind
                    \in {"section", "issue", "clause", "suggestion",
                         "user_feedback"}
              /\ k = Len(ReportHeadKinds) + 1
                    => report[1].ret[k].kind = "section"
              /\ \A j \in (Len(ReportHeadKinds) + 1)..(k - 1) :
                    /\ report[1].ret[j].index <= report[1].ret[k].index
                    /\ report[1].ret[k].kind = "section"
                          => report[1].ret[j].index < report[1].ret[k].index
C22_Witness_LaterSectionRecordedFirst ==
    /\ report # Null
    /\ Len(report[1].before.issues) >= 2
    /\ report[1].before.issues[1].section_index = 1
    /\ report[1].before.issues[2].section_index = 0
    /\ Cardinality({k \in 1..Len(report[1].ret) :
                       report[1].ret[k].kind = "section"}) = 2

\* The tool most recently given to register under name, Null when none was.
LastRegistered(log, name) ==
    LET hits == {k \in 1..Len(log) : log[k].name = name}
    IN  IF hits = {} THEN Null
        ELSE Some(log[CHOOSE k \in hits : \A j \in hits : k >= j])

\* C23: after any sequence of registrations, lookup by a name returns the
\* tool most recently registered under it, and the registry holds one entry
\* per registered name.
C23_RegisterReplaces ==
    /\ \A name \in RegistryNames :
          RegistryGet(_tools, name) = LastRegistered(register_log, name)
    /\ Len(_tools)
          = Cardinality({register_log[k].name : k \in 1..Len(register_log)})
    /\ \A j, k \in 1..Len(_tools) : j # k => _tools[j].name # _tools[k].name
C23_Witness_SameNameTwice ==
    /\ Len(register_log) >= 2
    /\ register_log[1].name = register_log[2].name
    /\ register_log[1].impl # register_log[2].impl
    /\ Len(_tools) = 1
    /\ _tools[1] = register_log[2]

\* C24: in every reachable state of the ledger, reset gives the empty
\* ledger: no sections, no issues, cursor 0, empty contract name and path.
C24_ResetGivesEmptyLedger ==
    /\ reset(review_state).sections = <<>>
    /\ reset(review_state).issues = <<>>
    /\ reset(review_state).current_section_index = 0
    /\ reset(review_state).contract_name = ""
    /\ reset(review_state).contract_path = ""
C24_Witness_LedgerInUse ==
    /\ review_state.contract_name # ""
    /\ Len(review_state.sections) >= 2
    /\ review_state.current_section_index > 0
    /\ Len(review_state.issues) >= 2
    /\ reset(review_state) # review_state

\* ---------------------------------------------------------------------------
\* The transcript after a tool-executing step.

\* Number of transcript messages the first k steps of the structured loop
\* have appended: one assistant message and one tool message per call.
RECURSIVE StepMessages(_, _)
StepMessages(log, k) ==
    IF k = 0 THEN 0
    ELSE StepMessages(log, k - 1)
           + (IF log[k].kind = "tool_calls" THEN 1 + Len(log[k].calls) ELSE 0)

\* C25: after every tool-executing step the transcript has gained the
\* assistant's message followed by that step's observations and nothing
\* else: in the structured loop one tool message per tool call of the
\* response, in call order, carrying that call's id and its result (also
\* when the call failed); in the textual loop one "Observation" message.
C25_TranscriptGainsStepObservations ==
    /\ agent = "structured" =>
          /\ Len(messages) = 2 + StepMessages(step_log, Len(step_log))
          /\ \A k \in 1..Len(step_log) :
                step_log[k].kind = "tool_calls" =>
                    /\ messages[2 + StepMessages(step_log, k - 1) + 1].role
                         = "assistant"
                    /\ messages[2 + StepMessages(step_log, k - 1) + 1]
                           .tool_calls = step_log[k].calls
                    /\ Len(step_log[k].results) = Len(step_log[k].calls)
                    /\ \A i \in 1..Len(step_log[k].calls) :
                          messages[2 + StepMessages(step_log, k - 1) + 1 + i]
                            = [role |-> "tool",
                               tool_call_id |-> step_log[k].calls[i].id,
                               content |-> step_log[k].results[i].content]
    /\ agent = "textual" =>
          \A k \in 1..Len(step_log) :
              step_log[k].kind = "tool" =>
                  /\ Len(messages) >= 2 + 2 * k
                  /\ k = Len(step_log) => Len(messages) = 2 + 2 * k
                  /\ messages[2 + 2 * k - 1]
                       = [role |-> "assistant", content |-> step_log[k].text]
                  /\ messages[2 + 2 * k].role = "user"
                  /\ Head(messages[2 + 2 * k].content) = "Observation"
C25_Witness_FailedCallAmongSeveral ==
    /\ agent = "structured"
    /\ pc = "llm"
    /\ Len(step_log) >= 1
    /\ Last(step_log).kind = "tool_calls"
    /\ Len(Last(step_log).calls) >= 2
    /\ \E i \in 1..Len(Last(step_log).calls) :
          ~Last(step_log).results[i].success
    /\ \E i \in 1..Len(Last(step_log).calls) :
          Last(step_log).results[i].success

\* ---------------------------------------------------------------------------
\* Tool calls of one response run one at a time.

\* One call run alone on the ledger rs.
RunAlone(rs, tool_call, out) ==
    CollectResult(tool_call, <<>>,
                  execute_tool_call(tools, tool_call, rs, out))

\* The calls from the i-th on, each run alone on the ledger the previous one
\* left, give the logged results and end in the ledger after.
RECURSIVE RunsOneAtATime(_, _, _, _, _)
RunsOneAtATime(rs, calls, results, i, after) ==
    IF i > Len(calls) THEN rs = after
    ELSE \E out \in RagOutcomes :
           \E r \in {RunAlone(rs, calls[i], out)} :
               /\ r.results[1] = results[i]
               /\ RunsOneAtATime(r.rs, calls, results, i + 1, after)

\* C26: the tool calls of one response run one at a time in list order,
\* each on the ledger the previous call left, and all of them have completed
\* (one result per call) before the next model call: every step of the
\* structured loop but the one that gives up at the step limit makes
\* exactly one model call.
C26_ToolCallsRunInListOrder ==
    agent = "structured" =>
        /\ llm_calls = Cardinality({k \in 1..Len(step_log) :
                                       step_log[k].kind # "max_steps"})
        /\ \A k \in 1..Len(step_log) :
              step_log[k].kind = "tool_calls" =>
                  /\ Len(step_log[k].results) = Len(step_log[k].calls)
                  /\ RunsOneAtATime(step_log[k].before, step_log[k].calls,
                                    step_log[k].results, 1,
                                    step_log[k].after)
                  /\ (k < Len(step_log)
                        /\ step_log[k + 1].kind = "tool_calls")
                       => step_log[k + 1].before = step_log[k].after
C26_Witness_AddSeesTheMove ==
    /\ agent = "structured"
    /\ pc = "llm"
    /\ Len(step_log) >= 1
    /\ Last(step_log).kind = "tool_calls"
    /\ Len(Last(step_log).calls) = 2
    /\ Last(step_log).calls[1].name = "manage_issues"
    /\ Last(step_log).before.current_section_index = 0
    /\ Last(step_log).before.issues = <<>>
    /\ Len(Last(step_log).after.issues) = 1
    /\ Last(step_log).after.issues[1].section_index = 1

\* ---------------------------------------------------------------------------
\* The id of a new issue.

SectionIndexInputs == {Null} \cup {Some(index) : index \in 0..MaxSections}

\* The section add_issue targets: the given index, the cursor when none.
TargetSection(section_index) ==
    IF section_index = Null THEN review_state.current_section_index
    ELSE section_index[1]

\* C27: add_issue gives the new issue the id (s+1, k+1), s the target
\* section index (the cursor when none is given) and k the number of issues
\* the ledger holds with section_index s at the call; the new issue is
\* pending and comes after all existing issues, which stay as they were.
C27_AddIssueId ==
    \A section_index \in SectionIndexInputs :
        LET r == add_issue(review_state, "c", "p1", "high", "s",
                           section_index)
            s == TargetSection(section_index)
            k == Cardinality({j \in 1..Len(review_state.issues) :
                                review_state.issues[j].section_index = s})
        IN  /\ r.ret.id = <<s + 1, k + 1>>
            /\ r.ret.section_index = s
            /\ r.ret.status = "pending"
            /\ r.rs.issues = Append(review_state.issues, r.ret)
            /\ r.rs.sections = review_state.sections
            /\ r.rs.current_section_index = review_state.current_section_index
C27_Witness_NumberedPerSection ==
    /\ Len(review_state.issues) = 2
    /\ review_state.issues[1].section_index = 0
    /\ review_state.issues[2].section_index = 1
    /\ review_state.issues[2].id = <<2, 1>>
    /\ review_state.current_section_index = 1
    /\ add_issue(review_state, "c", "p1", "high", "s", Null).ret.id = <<2, 2>>

\* ---------------------------------------------------------------------------
\* An update refused for its severity.

\* The call is a manage_issues update whose severity is a string outside
\* the enumeration.
UpdateWithInvalidSeverity(tool_call) ==
    /\ tool_call.name = "manage_issues"
    /\ tool_call.arguments.operation = "update"
    /\ "severity" \in DOMAIN tool_call.arguments
    /\ IsInstanceStr(tool_call.arguments.severity)
    /\ tool_call.arguments.severity \notin Severity

\* C28: a manage_issues update that ends in an error because of an invalid
\* severity leaves the targeted issue, and with it the ledger, as it was
\* before the call.
C28_RefusedUpdateChangesNothing ==
    agent = "structured" =>
        \A k \in 1..Len(step_log) :
            (/\ step_log[k].kind = "tool_calls"
             /\ Len(step_log[k].calls) = 1
             /\ UpdateWithInvalidSeverity(step_log[k].calls[1])
             /\ ~step_log[k].results[1].success)
                => step_log[k].after.issues = step_log[k].before.issues

\* ---------------------------------------------------------------------------
\* Issue operations addressed by id.

\* The four operations of manage_issues that take an id, applied to the
\* ledger of the state.
ByIdOperations(issue_id) ==
    [update |-> _update_issue(review_state,
                              [operation |-> "update", issue_id |-> issue_id,
                               problem |-> "p2"]),
     delete |-> _delete_issue(review_state,
                              [operation |-> "delete",
                               issue_id |-> issue_id]),
     confirm |-> _confirm_issue(review_state,
                                [operation |-> "confirm",
                                 issue_id |-> issue_id]),
     reject |-> _reject_issue(review_state,
                              [operation |-> "reject", issue_id |-> issue_id,
                               feedback |-> "fb"])]

\* Positions of the issues with the id, in the order they were added.
PositionsOf(issue_id) ==
    {k \in 1..Len(review_state.issues) :
        review_state.issues[k].id = issue_id}

\* The ledger's issues without the one at position k.
IssuesWithout(k) ==
    [j \in 1..(Len(review_state.issues) - 1) |->
        IF j < k THEN review_state.issues[j] ELSE review_state.issues[j + 1]]

\* C29: an issue operation addressed by id affects at most one issue and
\* nothing else.  With an id no issue has, update, delete, confirm and
\* reject report not-found and leave the ledger as it is; with a matching
\* id the earliest-added issue with that id, and no other, is modified or
\* removed; sections and cursor are untouched.
C29_ByIdOperationsTouchOneIssue ==
    \A issue_id \in IssueIdInputs :
        \A op \in {"update", "delete", "confirm", "reject"} :
            LET r == ByIdOperations(issue_id)[op]
                hits == PositionsOf(issue_id)
            IN  /\ ~r.raised
                /\ r.rs.sections = review_state.sections
                /\ r.rs.current_section_index
                     = review_state.current_section_index
                /\ r.rs.contract_name = review_state.contract_name
                /\ hits = {} =>
                      /\ r.content = <<"error", "issue_not_found", issue_id>>
                      /\ r.rs = review_state
                /\ hits # {} =>
                      \E k \in hits :
                          /\ \A j \in hits : k <= j
                          /\ r.content[1] # "error"
                          /\ IF op = "delete"
                             THEN r.rs.issues = IssuesWithout(k)
                             ELSE /\ Len(r.rs.issues)
                                       = Len(review_state.issues)
                                  /\ \A j \in 1..Len(r.rs.issues) :
                                        j # k => r.rs.issues[j]
                                                   = review_state.issues[j]
                                  /\ r.rs.issues[k].id = issue_id
                                  /\ op = "update" =>
                                        r.rs.issues[k]
                                          = [review_state.issues[k]
                                               EXCEPT !.problem = "p2"]
                                  /\ op = "confirm" =>
                                        r.rs.issues[k]
                                          = [review_state.issues[k]
                                               EXCEPT !.status = "confirmed"]
                                  /\ op = "reject" =>
                                        r.rs.issues[k]
                                          = [review_state.issues[k]
                                               EXCEPT !.status = "rejected",
                                                      !.user_feedback = "fb"]
C29_Witness_EarliestOfTwoConfirmed ==
    /\ Len(review_state.issues) = 2
    /\ review_state.issues[1].id = review_state.issues[2].id
    /\ review_state.issues[1].status = "confirmed"
    /\ review_state.issues[2].status = "pending"
    /\ review_state.sections # <<>>

\* ---------------------------------------------------------------------------
\* The cursor of a ledger that has sections.

ReActResponseDelivered ==
    /\ stream_owner = "react"
    /\ stream_pos = Len(stream_text)

\* ReActAgent.run returns an answer on this response: the text after
\* "Final:", or the whole response when it holds neither marker.
ReturnsAnswer(assistant_text) ==
    \/ _parse_final(assistant_text) # Null
    \/ _parse_action(assistant_text).kind = "none"

ReturnedAnswer(assistant_text) ==
    IF _parse_final(assistant_text) # Null
    THEN _parse_final(assistant_text)[1]
    ELSE assistant_text

\* C31: when a streamed run of the textual loop returns an answer, the text
\* passed to the output callback, joined in order, is the returned answer up
\* to surrounding whitespace, also for a response without "Final:" that is
\* returned by default.
C31_StreamedTextIsTheAnswer ==
    (ReActResponseDelivered /\ ReturnsAnswer(buffer))
        => Strip(Cat(streamed)) = Strip(ReturnedAnswer(buffer))

\* ---------------------------------------------------------------------------
\* Termination of auto review.

\* C32: auto review ends after finitely many turns, whatever the turns do to
\* the ledger, also when a "next section" turn leaves the cursor where it
\* was.
C32_AutoReviewTerminates == <>(auto_review.pc = "done")

\* ---------------------------------------------------------------------------
\* A successful load.

LoadSucceeded == load_result # Null /\ load_result[1].ret.kind = "loaded"

\* The segmenter's output for the file's text, as ledger sections.
SegmentedSections(f) ==
    [i \in 1..Len(_split_sections(_read_file(f).value)) |->
        [index |-> i - 1,
         title |-> _split_sections(_read_file(f).value)[i][1],
         content |-> _split_sections(_read_file(f).value)[i][2]]]

\* C33: a successful load replaces the whole ledger: the sections are the
\* segmenter's output in order, there is no issue and the cursor is 0,
\* whatever the ledger held before the call.
C33_LoadReplacesLedger ==
    LoadSucceeded =>
        /\ review_state.sections = SegmentedSections(input_file)
        /\ review_state.issues = <<>>
        /\ review_state.current_section_index = 0
        /\ review_state.contract_name = input_file.name
        /\ review_state.contract_path = input_file.path
C33_Witness_LoadOverUsedLedger ==
    /\ LoadSucceeded
    /\ load_result[1].before.issues # <<>>
    /\ load_result[1].before.current_section_index > 0
    /\ Len(review_state.sections) >= 2
    /\ review_state.sections # load_result[1].before.sections

\* ---------------------------------------------------------------------------
\* The findings of the exported report.

\* The lines of the report that open a finding.
FindingLines(lines) == {k \in 1..Len(lines) : lines[k].kind = "issue"}

\* The total issue count shown in the head of the report.
HeaderTotal(lines) ==
    lines[CHOOSE k \in 1..Len(lines) : lines[k].kind = "total_issues"]
        .shown[1]

\* C34: the exported report lists every issue of the ledger exactly once in
\* its per-section findings, so the number of findings listed equals the
\* total issue count shown in the header.
C34_ReportListsEveryIssue ==
    report # Null =>
        /\ HeaderTotal(report[1].ret) = Len(report[1].before.issues)
        /\ Cardinality(FindingLines(report[1].ret))
              = HeaderTotal(report[1].ret)
        /\ \A i \in 1..Len(report[1].before.issues) :
              \E k \in FindingLines(report[1].ret) :
                  /\ report[1].ret[k].shown
                       = <<report[1].before.issues[i].id>>
                  /\ report[1].ret[k].index
                       = report[1].before.issues[i].section_index

\* ---------------------------------------------------------------------------
\* The tool call read from a response of the textual loop.

\* The text after the first occurrence of the marker.
AfterMarker(text, marker) ==
    From(text, StrFind(text, marker) + Len(marker))

\* The text after "Action Input:" without surrounding whitespace and
\* without its code fence; empty when the marker is absent.
InputText(text) ==
    IF ~Contains(text, ActionInputMarker) THEN <<>>
    ELSE Unfenced(Strip(AfterMarker(text, ActionInputMarker)))

\* C35: for a response taken as a tool call, the tool name is the first
\* whitespace-delimited token after "Action:", and the argument is the JSON
\* value of the text after "Action Input:" with a code fence stripped; a
\* text that is not valid JSON is passed as {"input": text}, and an absent
\* one as the empty mapping.
C35_ActionNameAndInput ==
    agent = "textual" =>
        \A k \in 1..Len(step_log) :
            step_log[k].kind = "tool" =>
                /\ step_log[k].name
                     = FirstToken(AfterMarker(step_log[k].text, ActionMarker))
                /\ InputText(step_log[k].text) = <<>>
                      => step_log[k].input = [type |-> "dict", value |-> <<>>]
                /\ (InputText(step_log[k].text) # <<>>
                      /\ JsonLoads(InputText(step_log[k].text)) # Null)
                      => step_log[k].input
                           = JsonLoads(InputText(step_log[k].text))[1]
                /\ (InputText(step_log[k].text) # <<>>
                      /\ JsonLoads(InputText(step_log[k].text)) = Null)
                      => step_log[k].input
                           = [type |-> "dict",
                              value |-> <<[key |-> "input",
                                           value |->
                                             InputText(step_log[k].text)]>>]
C35_Witness_FreeTextThenFencedInput ==
    /\ agent = "textual"
    /\ Len(step_log) >= 2
    /\ step_log[1].kind = "tool"
    /\ step_log[1].name = Calc
    /\ step_log[1].input
         = [type |-> "dict",
            value |-> <<[key |-> "input", value |-> <<"1", "+", "1">>]>>]
    /\ step_log[2].kind = "tool"
    /\ Contains(step_log[2].text, Fence)
    /\ step_log[2].input = [type |-> "dict", value |-> <<>>]

\* ---------------------------------------------------------------------------
\* The boundary between the main body and the appendices.

\* The appendix markers of a text, and the text before the first of them.
AppendixMarkers(content) == Finditer(content, "appendix", 0)
TextBeforeAppendices(content) ==
    Slice(content, 0, AppendixMarkers(content)[1].start)

\* The sections of the main body are those whose title is not an appendix
\* title.
IsAppendixSection(section) == section[1] # <<>> /\ section[1][1] = Fu
MainBodySections(sections) ==
    SelectSeq(sections, LAMBDA section : ~IsAppendixSection(section))

IsSuffix(s, t) ==
    Len(s) <= Len(t) /\ SubSeq(t, Len(t) - Len(s) + 1, Len(t)) = s

\* The text from the i-th appendix marker to the next one, or to the end.
AppendixBlock(content, i) ==
    Slice(content, AppendixMarkers(content)[i].start,
          IF i < Len(AppendixMarkers(content))
          THEN AppendixMarkers(content)[i + 1].start
          ELSE Len(content))

\* C36: in a text with appendix markers, the main-body sections hold only
\* text that lies before the first appendix marker, there are as many of
\* them as that text alone gives, and every appendix identifier has one
\* section, which holds the text from one of its markers to the next
\* appendix marker or to the end of the text.
C36_AppendixBoundary ==
    (split_result # Null /\ AppendixMarkers(input_file.content) # <<>>) =>
        /\ IsSuffix(KeptText(MainBodySections(split_result[1])),
                    Essence(TextBeforeAppendices(input_file.content)))
        /\ Len(SelectSeq(MainBodySections(split_result[1]),
                         LAMBDA section : section[1] # BasicInfoTitle))
              = Len(MainMatches(TextBeforeAppendices(input_file.content)))
        /\ \A i \in 1..Len(AppendixMarkers(input_file.content)) :
              LET appendix_id == AppendixMarkers(input_file.content)[i].group1
              IN  /\ Cardinality(SectionsOfAppendix(split_result[1],
                                                    appendix_id)) = 1
                  /\ \A k \in SectionsOfAppendix(split_result[1],
                                                 appendix_id) :
                        \E j \in 1..Len(AppendixMarkers(input_file.content)) :
                            /\ AppendixMarkers(input_file.content)[j].group1
                                 = appendix_id
                            /\ Essence(split_result[1][k][1])
                                 \o Essence(split_result[1][k][2])
                                 = Essence(AppendixBlock(input_file.content,
                                                         j))

\* ---------------------------------------------------------------------------
\* The sections a duplicate appendix leaves alone.

\* What the segmenter gives for the main body taken alone.
MainBodyAlone(content) ==
    IF MainMatches(TextBeforeAppendices(content)) = <<>> THEN <<>>
    ELSE _split_sections(TextBeforeAppendices(content))

\* C37: in a text where an appendix identifier is reported twice, the
\* sections of the main body are those of the main body alone, and every
\* appendix marker of an identifier that is reported once still has its
\* section, with the title and the body that marker introduces, also when
\* its identifier begins with the duplicated identifier.
C37_DuplicateLeavesOtherSections ==
    (split_result # Null /\ RepeatedAppendixIds(input_file.content) # {}) =>
        /\ MainBodySections(split_result[1])
              = MainBodyAlone(input_file.content)
        /\ \A i \in 1..Len(AppendixMarkers(input_file.content)) :
              AppendixMarkers(input_file.content)[i].group1
                    \notin RepeatedAppendixIds(input_file.content)
                 => \E k \in 1..Len(split_result[1]) :
                        split_result[1][k]
                          = <<AppendixTitle(
                                  input_file.content,
                                  AppendixMarkers(input_file.content)[i]),
                              AppendixContent(
                                  input_file.content,
                                  AppendixMarkers(input_file.content), i)>>

\* ---------------------------------------------------------------------------
\* The order of the returned sections.

\* 0 for the basic-information section, 1 for a section of the main body,
\* 2 for an appendix section.
SectionRank(section) ==
    IF section[1] = BasicInfoTitle THEN 0
    ELSE IF IsAppendixSection(section) THEN 2
    ELSE 1

\* The identifier an appendix title begins with: the appendix word and the
\* numerals after it.
TitleAppendixId(title) ==
    LET stop == {k \in 3..Len(title) : title[k] \notin AppendixNumerals}
    IN  IF stop = {} THEN title
        ELSE SubSeq(title, 1, (CHOOSE k \in stop : \A j \in stop : k <= j) - 1)

\* The position of the first marker that reports the identifier, 0 when no
\* marker does.
FirstOccurrence(content, appendix_id) ==
    LET hits == {i \in 1..Len(AppendixIdsOf(content)) :
                    AppendixIdsOf(content)[i] = appendix_id}
    IN  IF hits = {} THEN 0 ELSE CHOOSE i \in hits : \A j \in hits : i <= j

ClauseSectionsOf(sections) ==
    SelectSeq(sections, LAMBDA section : SectionRank(section) = 1)

ClauseMarkersOf(content) ==
    MainMatches(Slice(content, 0,
                      MainContentEnd(content, Finditer(content, "appendix",
                                                       0))))

ChineseClauseMarkers(content) ==
    Finditer(Slice(content, 0,
                   MainContentEnd(content, Finditer(content, "appendix", 0))),
             "clause", 0)
ArabicClauseMarkers(content) ==
    Finditer(Slice(content, 0,
                   MainContentEnd(content, Finditer(content, "appendix", 0))),
             "numeric_clause", 0)

\* C39: within the main body every clause marker, with Chinese or with
\* Arabic numerals, starts a section of its own: there are as many clause
\* sections as markers of the two forms together, and every marker begins
\* the title of one of them.
C39_EitherNumeralFormStartsSection ==
    (split_result # Null /\ split_result[1][1][1] # FullTextTitle) =>
        /\ Len(ClauseSectionsOf(split_result[1]))
              = Len(ChineseClauseMarkers(input_file.content))
                  + Len(ArabicClauseMarkers(input_file.content))
        /\ \A i \in 1..Len(ArabicClauseMarkers(input_file.content)) :
              \E k \in 1..Len(split_result[1]) :
                  StartsWithAt(split_result[1][k][1],
                               ArabicClauseMarkers(input_file.content)[i]
                                   .group1, 1)
        /\ \A i \in 1..Len(ChineseClauseMarkers(input_file.content)) :
              \E k \in 1..Len(split_result[1]) :
                  StartsWithAt(split_result[1][k][1],
                               ChineseClauseMarkers(input_file.content)[i]
                                   .group1, 1)


----------------------------------------------------------------------------
\* The observations of the knowledge-base lookup

\* The texts execute returns for a lookup that failed.
RagErrorTexts == {<<"rag_error", f>> : f \in RagFailures}

\* The i-th call of the k-th logged step is a lookup the registry can run.
IsRagCall(k, i) ==
    /\ step_log[k].kind = "tool_calls"
    /\ i \in 1..Len(step_log[k].calls)
    /\ step_log[k].calls[i].name = "rag_query"
    /\ "rag_query" \in tools

\* C40: a lookup of the knowledge base that fails (missing configuration,
\* non-200 response, network exception, timeout) comes back as a textual
\* error observation: the call has a successful result whose content is the
\* results or the error text execute returned, never an exception caught by
\* the registry, that content is the tool message of the call, and the loop
\* goes on to its next model call.
C40_LookupFailureIsAnObservation ==
    \A k \in 1..Len(step_log) :
        \A i \in 1..(IF step_log[k].kind = "tool_calls"
                      THEN Len(step_log[k].calls) ELSE 0) :
            IsRagCall(k, i) =>
                /\ Len(step_log[k].results) = Len(step_log[k].calls)
                /\ step_log[k].results[i].success
                /\ step_log[k].results[i].error = Null
                /\ step_log[k].results[i].content
                      \in {<<"rag", "results">>} \cup RagErrorTexts
                /\ \E m \in 1..Len(messages) :
                      /\ messages[m].role = "tool"
                      /\ messages[m].tool_call_id = step_log[k].calls[i].id
                      /\ messages[m].content
                            = step_log[k].results[i].content
                /\ k = Len(step_log) => pc = "llm"

\* A lookup timed out, another one failed with an exception, and the loop
\* made a model call after each.
C40_Witness_TimeoutAndExceptionObserved ==
    \E k1, k2 \in 1..Len(step_log) :
        /\ k1 < k2
        /\ IsRagCall(k1, 1) /\ IsRagCall(k2, 1)
        /\ step_log[k1].results[1].content = <<"rag_error", "timeout">>
        /\ step_log[k2].results[1].content = <<"rag_error", "exception">>
        /\ Len(step_log) > k2
====
